---- MODULE Spec2Model ----
(***************************************************************************)
(* Model of the SICK radar monitor backend (Go): the acquisition loop      *)
(* (radar.Service), the radar TCP client (radar.RadarClient), the          *)
(* WebSocket hub (websocket.Hub) with its clients, and the hand-off to the *)
(* Redis adapter (redis.Service).                                          *)
(*                                                                         *)
(* Goroutines are processes with a program position each; a channel is a   *)
(* sequence with a capacity, an unbuffered channel is a rendezvous between *)
(* a sender position and a receiver position; a sync.Mutex is a variable   *)
(* naming its holder.                                                      *)
(*                                                                         *)
(* Units: velocities and positions are integers in 0.001 m/s and 0.001 m;  *)
(* durations are integers in milliseconds.                                 *)
(***************************************************************************)
EXTENDS Integers, Sequences, FiniteSets, TLC

VARIABLES
    \* ---- websocket.Hub and its clients (hub.go, client.go, handler.go)
    clients,        \* h.clients: the set of registered clients
    send,           \* client.send: contents of each client's outbound channel
    closed,         \* whether client.send has been closed
    initPc,         \* goroutine sendInitialDataToClient of each client
    rpump,          \* goroutine readPump of each client
    wpump,          \* goroutine writePump of each client
    broadcast,      \* h.broadcast: contents of the buffered channel
    hubPc,          \* position of goroutine Hub.Run
    deadClients,    \* Hub.Run's local deadClients still to be unregistered
    hubLastMetrics, \* h.lastMetrics (the velocities), Nil before the first call
    \* ---- radar.Service: the acquisition loop (decoder.go 198-662)
    pc,             \* position of goroutine collectData / of the caller of Broadcast*
    out,            \* the serialized message the loop is sending on h.broadcast
    todo,           \* the statements of processTick still to run in this tick
    cur,            \* the frame being processed in this tick (metrics)
    consecutiveErrors,
    status,         \* s.status: [tag, errorCount]
    lastVelocities, \* s.lastVelocities
    lastMetrics,    \* s.lastMetrics, NoFrame before the first frame
    cfgMax,         \* s.config.MaxConsecutiveErrors
    startPc,        \* position of Service.Start
    \* ---- radar.RadarClient (part_006)
    connected,      \* r.connected
    radarMutex,     \* r.mutex: "free" or the goroutine holding it
    sensor,         \* the sensor as seen on the TCP session: "up" or "down"
    sensorReplies,  \* the replies the sensor may give in this run
    \* ---- redis.Service (redis/service.go) as far as the loop drives it
    redisConnected, \* s.connected of the adapter
    writers,        \* the goroutines started at decoder.go:468 and not finished
    store,          \* the contents of the Redis store under the adapter's prefix
    storeKeys,      \* the families of keys of the store followed in this run
    redisUp,        \* whether the Redis server answers
    \* ---- history variables, read by the properties only
    nStatus,        \* number of status messages handed to the hub, by tag (saturating)
    tickLog,        \* the calls made so far in the current tick, in order
    sentVel,        \* velocities of the last metrics message really put on h.broadcast
    sinceSent,      \* ms from that message to the last call of BroadcastMetrics
                    \* (saturating at coalesceWindow)
    lastSent,       \* whether the last call of BroadcastMetrics sent its frame
    \* ---- server.Server.Shutdown (part_003) and what it cancels and closes
    sdPc,           \* position of Shutdown: "serving" before it is called
    svcCtx,         \* s.ctx of radar.Service cancelled
    hubCtx,         \* h.ctx of the hub cancelled
    redisClosed,    \* client.Close() called on the Redis client
    \* ---- commands of the clients (client.go, hub.go) and the HTTP API
    commands,       \* h.commands
    handlers,       \* the goroutines handleClientCommand not finished
    rout,           \* what the readPump of a client is about to send
    emitLog,        \* the numbered frames written to each client's connection
    resp,           \* the last response of the HTTP API
    \* ---- capacity of the channel client.send in this run
    qcap,
    \* ---- RadarClient.DecodeValues on its own
    rx,             \* the reply handed to DecodeValues
    dec,            \* what DecodeValues returned for it
    \* ---- configuration of the store
    redisEnabled    \* config.Redis.Enabled

hubVars   == <<clients, send, closed, initPc, rpump, wpump, hubPc, deadClients>>
loopVars  == <<todo, cur, consecutiveErrors, status, lastVelocities, lastMetrics,
               cfgMax, startPc>>
radarVars == <<connected, radarMutex, sensor, sensorReplies>>
redisVars == <<redisConnected, writers, store, storeKeys, redisUp>>
histVars  == <<nStatus, tickLog>>
coalVars  == <<hubLastMetrics, sentVel, sinceSent, lastSent>>
shutVars  == <<sdPc, svcCtx, hubCtx, redisClosed>>
reqVars   == <<commands, handlers, rout, emitLog, resp>>
decVars   == <<rx, dec>>
vars == <<hubVars, broadcast, pc, out, loopVars, radarVars, redisVars, histVars,
          coalVars, shutVars, reqVars, qcap, decVars, redisEnabled>>

----------------------------------------------------------------------------
\* Bounds of the model

\* capacity of client.send in the model (256 in client.go:29)
sendBufferSize == 1
\* capacity of h.broadcast in the model (256 in hub.go:60)
broadcastBufferSize == 1
\* asynchronous Redis writers alive at the same time
MaxWriters == 2
\* the history counters saturate here
MaxCount == 2

\* capacity of h.commands (100 in hub.go:61)
commandsBufferSize == 1

\* cap on the goroutines handleClientCommand alive at once
MaxHandlers == 1

\* the WebSocket clients that ever connect
Clients == {1, 2}

\* a nil pointer to a velocity vector
Nil == <<>>

Min(a, b) == IF a < b THEN a ELSE b

Abs(x) == IF x < 0 THEN -x ELSE x

----------------------------------------------------------------------------
\* Messages, as the fields the properties read: the "type" of
\* models.WebSocketMessage and the status tag of a metrics or status message.

Msg(t, tag) == [type |-> t, tag |-> tag]

NoMsg == Msg("none", "-")

\* no request answered yet
NoResponse == [req |-> "-", seg |-> <<>>, code |-> 0, body |-> <<>>]

PingMsg == Msg("ping", "-")

\* c.id, uuid.New().String() in newClient: a different identifier per client
ClientId(c) == IF c = 1 THEN "id1" ELSE "id2"

\* the welcome message of sendInitialDataToClient, Data["clientId"] = client.id
WelcomeMsg(c) == Msg("welcome", ClientId(c))

\* the numbered frames of a producer that hands frames over in acquisition
\* order, and the position of a message among them (0: not a numbered frame)
FrameTags == <<"f1", "f2", "f3">>

FrameNo(m) ==
    IF m.type = "metrics" /\ \E k \in DOMAIN FrameTags : FrameTags[k] = m.tag
      THEN CHOOSE k \in DOMAIN FrameTags : FrameTags[k] = m.tag
      ELSE 0

IsFrame(m) == FrameNo(m) > 0

\* what a write of the messages q adds to the log of the frames written
EmitReversed(log, q) ==
    LET f == SelectSeq(q, IsFrame)
    IN  log \o [i \in 1..Len(f) |-> f[Len(f) + 1 - i]]

Emit(log, q) == log \o SelectSeq(q, IsFrame)

\* what the acquisition loop hands to the hub in the hub's own specification
ProducerMsgs == {Msg("metrics", "ok")}

----------------------------------------------------------------------------
\* websocket.Hub (hub.go) and websocket.Client (client.go)

\* An unrecovered panic in any goroutine ends the Go process.
Crashed ==
    \/ \E c \in Clients : initPc[c] = "panic" \/ rpump[c] = "panic"
    \/ \E h \in handlers : h.command = "panic"
    \/ sdPc = "panic"

\* Handler.HandleWebSocket + Hub.Run, case client := <-h.register.
\* The handler's send on the unbuffered h.register meets Run's select; Run adds
\* the client and starts sendInitialDataToClient; the handler then starts the
\* two pumps.
HubRegister(c) ==
    /\ ~Crashed
    /\ hubPc = "select"
    /\ rpump[c] = "none"
    /\ clients' = clients \cup {c}
    /\ initPc' = [initPc EXCEPT ![c] = "send"]
    /\ rpump' = [rpump EXCEPT ![c] = "reading"]
    /\ wpump' = [wpump EXCEPT ![c] = "select"]
    /\ UNCHANGED <<send, closed, hubPc, deadClients, broadcast, pc, out, loopVars,
                   radarVars, redisVars, histVars, coalVars, shutVars, reqVars, qcap,
                   decVars, redisEnabled>>

\* Hub.sendInitialDataToClient: client.send <- welcome, a blocking send; a send
\* on a closed channel panics.
SendWelcome(c) ==
    /\ ~Crashed
    /\ initPc[c] = "send"
    /\ \/ /\ closed[c]
          /\ initPc' = [initPc EXCEPT ![c] = "panic"]
          /\ UNCHANGED send
       \/ /\ ~closed[c]
          /\ Len(send[c]) < qcap
          /\ send' = [send EXCEPT ![c] = Append(@, WelcomeMsg(c))]
          /\ initPc' = [initPc EXCEPT ![c] = "done"]
    /\ UNCHANGED <<clients, closed, rpump, wpump, hubPc, deadClients, broadcast, pc,
                   out, loopVars, radarVars, redisVars, histVars, coalVars, shutVars,
                   reqVars, qcap, decVars, redisEnabled>>

\* The goroutine Hub.Run as a sender, next to the clients whose
\* readPump sends.
HubRun == 0

\* Who is at the statement "h.unregister <- c": Run itself in its eviction loop
\* (hub.go:150-152), or the deferred function of c's readPump (client.go:69).
AtUnregisterSend(s, c) ==
    IF s = HubRun THEN hubPc = "evict" /\ c \in deadClients
                 ELSE s = c /\ rpump[c] = "unregister"

\* h.unregister is unbuffered and is received only by the select of Hub.Run.
UnregisterReceiverReady == hubPc = "select"

\* Hub.Run, case client := <-h.unregister, together with the sender it meets.
Unregister(s, c) ==
    /\ ~Crashed
    /\ AtUnregisterSend(s, c)
    /\ UnregisterReceiverReady
    /\ IF c \in clients
         THEN /\ clients' = clients \ {c}
              /\ closed' = [closed EXCEPT ![c] = TRUE]
         ELSE UNCHANGED <<clients, closed>>
    /\ IF s = HubRun
         THEN /\ deadClients' = deadClients \ {c}
              /\ hubPc' = IF deadClients' = {} THEN "select" ELSE "evict"
              /\ UNCHANGED rpump
         ELSE /\ rpump' = [rpump EXCEPT ![c] = "done"]
              /\ UNCHANGED <<deadClients, hubPc>>
    /\ UNCHANGED <<send, initPc, wpump, broadcast, pc, out, loopVars, radarVars,
                   redisVars, histVars, coalVars, shutVars, reqVars, qcap,
                   decVars, redisEnabled>>

UnregisterStep == \E c \in Clients : \E s \in {HubRun, c} : Unregister(s, c)

\* The loop "for client := range h.clients { select { case client.send <- message:
\* default: deadClients = append(...) } }" of the broadcast case: the queues after
\* it, and the clients found full.
FanOutBreaksAtFull(q, reg, m) ==
    LET full == {c \in reg : Len(q[c]) >= qcap}
    IN  [c \in Clients |->
            IF c \in reg /\ Len(q[c]) < qcap
               /\ \A d \in full : c < d
              THEN Append(q[c], m) ELSE q[c]]

FanOutUnbounded(q, reg, m) ==
    [c \in Clients |-> IF c \in reg THEN Append(q[c], m) ELSE q[c]]

FanOut(q, reg, m) ==
    [c \in Clients |->
        IF c \in reg /\ Len(q[c]) < qcap THEN Append(q[c], m) ELSE q[c]]

FullClients(q, reg) == {c \in reg : Len(q[c]) >= qcap}

\* Hub.Run, case message := <-h.broadcast.
HubBroadcast ==
    /\ ~Crashed
    /\ hubPc = "select"
    /\ broadcast # <<>>
    /\ broadcast' = Tail(broadcast)
    /\ IF clients = {}
         THEN UNCHANGED <<send, hubPc, deadClients>>
         ELSE /\ send' = FanOut(send, clients, Head(broadcast))
              /\ deadClients' = FullClients(send, clients)
              /\ hubPc' = IF deadClients' = {} THEN "select" ELSE "evict"
    /\ UNCHANGED <<clients, closed, initPc, rpump, wpump, pc, out, loopVars,
                   radarVars, redisVars, histVars, coalVars, shutVars, reqVars, qcap,
                   decVars, redisEnabled>>

\* Hub.Run, case <-cleanupTicker.C: sendPingToAllClients sends on h.broadcast,
\* the channel only Run receives from, while holding h.mu.RLock.
HubPing ==
    /\ ~Crashed
    /\ hubPc = "select"
    /\ clients # {}
    /\ IF Len(broadcast) < broadcastBufferSize
         THEN /\ broadcast' = Append(broadcast, PingMsg)
              /\ UNCHANGED hubPc
         ELSE /\ hubPc' = "ping"
              /\ UNCHANGED broadcast
    /\ UNCHANGED <<clients, send, closed, initPc, rpump, wpump, deadClients, pc, out,
                   loopVars, radarVars, redisVars, histVars, coalVars, shutVars,
                   reqVars, qcap, decVars, redisEnabled>>

\* Client.writePump, case message, ok := <-c.send: with the channel closed and
\* empty the pump writes a close message and returns; otherwise it has taken the
\* first message.
WritePumpRecv(c) ==
    /\ ~Crashed
    /\ wpump[c] = "select"
    /\ \/ /\ send[c] # <<>>
          /\ send' = [send EXCEPT ![c] = Tail(@)]
          /\ emitLog' = [emitLog EXCEPT ![c] = Emit(@, <<Head(send[c])>>)]
          /\ wpump' = [wpump EXCEPT ![c] = "batch"]
       \/ /\ send[c] = <<>>
          /\ closed[c]
          /\ wpump' = [wpump EXCEPT ![c] = "done"]
          /\ UNCHANGED <<send, emitLog>>
    /\ UNCHANGED <<clients, closed, initPc, rpump, hubPc, deadClients, broadcast, pc,
                   out, loopVars, radarVars, redisVars, histVars, coalVars, shutVars,
                   commands, handlers, rout, resp, qcap, decVars, redisEnabled>>

\* Client.writePump, client.go:121-129: n := len(c.send), n more receives, then
\* w.Close(), whose error ends the pump.
WritePumpBatch(c) ==
    /\ ~Crashed
    /\ wpump[c] = "batch"
    /\ send' = [send EXCEPT ![c] = <<>>]
    /\ emitLog' = [emitLog EXCEPT ![c] = Emit(@, send[c])]
    /\ \E ok \in BOOLEAN : wpump' = [wpump EXCEPT ![c] = IF ok THEN "select" ELSE "done"]
    /\ UNCHANGED <<clients, closed, initPc, rpump, hubPc, deadClients, broadcast, pc,
                   out, loopVars, radarVars, redisVars, histVars, coalVars, shutVars,
                   commands, handlers, rout, resp, qcap, decVars, redisEnabled>>

\* Client.readPump: ReadMessage fails (the peer went away or the connection was
\* closed), the loop breaks and the deferred function runs.
ReadPumpBreak(c) ==
    /\ ~Crashed
    /\ rpump[c] = "reading"
    /\ rpump' = [rpump EXCEPT ![c] = "unregister"]
    /\ UNCHANGED <<clients, send, closed, initPc, wpump, hubPc, deadClients, broadcast,
                   pc, out, loopVars, radarVars, redisVars, histVars, coalVars,
                   shutVars, reqVars, qcap, decVars, redisEnabled>>

\* An inbound text message of a client: whether it is a JSON object, the keys
\* at its top level, its type, a top-level "time", and params.time and
\* params.index ("-" and 0 when absent).
Inbound(json, keys, type, time, ptime, pindex) ==
    [json |-> json, keys |-> keys, type |-> type, time |-> time, ptime |-> ptime,
     pindex |-> pindex]

\* the ping of the app's transport, part_002:264: {type: 'ping', time: Date.now()}
AppPing(t) == Inbound(TRUE, {"type", "time"}, "ping", t, "-", 0)

\* a ping with its time under params
ParamsPing(t) == Inbound(TRUE, {"type", "params"}, "ping", "-", t, 0)

\* part_002:334-346: requestVelocityHistory(index) and requestStatus()
GetHistoryCmd(n) == Inbound(TRUE, {"type", "params"}, "get_history", "-", "-", n)

GetStatusCmd == Inbound(TRUE, {"type"}, "get_status", "-", "-", 0)

UnknownCmd == Inbound(TRUE, {"type"}, "subscribe", "-", "-", 0)

Garbage == Inbound(FALSE, {}, "", "-", "-", 0)

DecodeOk(m) == m.json /\ m.keys \subseteq {"type", "params", "id"}

ErrorMsg(code) == Msg("error", code)

\* handlePing, client.go:174-195: ping.Time is params["time"], 0 when absent
PongMsg(m) == Msg("pong", IF "params" \in m.keys THEN m.ptime ELSE "0")

\* models.ClientCommand as the client builds it: handleGetHistory stores the
\* index as a Go int, a forwarded command keeps the float64 of the JSON decoder
ClientCommand(c, m) ==
    [command |-> m.type,
     index |-> m.pindex,
     ikind |-> IF m.type = "get_history" THEN "int"
               ELSE IF "params" \in m.keys THEN "float64" ELSE "-",
     time |-> m.ptime,
     client |-> ClientId(c)]

NoCmd == [command |-> "-", index |-> 0, ikind |-> "-", time |-> "-", client |-> "-"]

\* what the readPump holds while it handles the message m: the message, and
\* the reply or the command it is about to send
ReadOut(m, reply, cmd) == [in |-> m, reply |-> reply, cmd |-> cmd]

NoOut == ReadOut(Inbound(FALSE, {}, "-", "-", "-", 0), NoMsg, NoCmd)

\* Client.readPump: ReadMessage returns a message; processIncomingMessage,
\* client.go:140-171, up to the channel send it ends with
ReadPumpMessage(c, m) ==
    /\ ~Crashed
    /\ rpump[c] = "reading"
    /\ IF ~DecodeOk(m)
         THEN /\ rout' = [rout EXCEPT
                              ![c] = ReadOut(m, ErrorMsg("invalid_format"), NoCmd)]
              /\ rpump' = [rpump EXCEPT ![c] = "reply"]
         ELSE IF m.type = "ping"
           THEN /\ rout' = [rout EXCEPT ![c] = ReadOut(m, PongMsg(m), NoCmd)]
                /\ rpump' = [rpump EXCEPT ![c] = "reply"]
           ELSE /\ rout' = [rout EXCEPT
                                ![c] = ReadOut(m, NoMsg, ClientCommand(c, m))]
                /\ rpump' = [rpump EXCEPT ![c] = "command"]
    /\ UNCHANGED <<clients, send, closed, initPc, wpump, hubPc, deadClients, broadcast,
                   pc, out, loopVars, radarVars, redisVars, histVars, coalVars,
                   shutVars, commands, handlers, emitLog, resp, qcap,
                   decVars, redisEnabled>>

\* handlePing and sendErrorMessage: c.send <- jsonMsg, a blocking send made by
\* the readPump; a send on a closed channel panics
ReadPumpReply(c) ==
    /\ ~Crashed
    /\ rpump[c] = "reply"
    /\ \/ /\ closed[c]
          /\ rpump' = [rpump EXCEPT ![c] = "panic"]
          /\ UNCHANGED <<send, rout>>
       \/ /\ ~closed[c]
          /\ Len(send[c]) < qcap
          /\ send' = [send EXCEPT ![c] = Append(@, rout[c].reply)]
          /\ rout' = [rout EXCEPT ![c] = NoOut]
          /\ rpump' = [rpump EXCEPT ![c] = "reading"]
    /\ UNCHANGED <<clients, closed, initPc, wpump, hubPc, deadClients, broadcast, pc,
                   out, loopVars, radarVars, redisVars, histVars, coalVars, shutVars,
                   commands, handlers, emitLog, resp, qcap, decVars, redisEnabled>>

\* "c.hub.commands <- models.ClientCommand{...}": the send completes when the
\* buffer has room
ReadPumpCommand(c) ==
    /\ ~Crashed
    /\ rpump[c] = "command"
    /\ Len(commands) < commandsBufferSize
    /\ commands' = Append(commands, rout[c].cmd)
    /\ rout' = [rout EXCEPT ![c] = NoOut]
    /\ rpump' = [rpump EXCEPT ![c] = "reading"]
    /\ UNCHANGED <<clients, send, closed, initPc, wpump, hubPc, deadClients, broadcast,
                   pc, out, loopVars, radarVars, redisVars, histVars, coalVars,
                   shutVars, handlers, emitLog, resp, qcap, decVars, redisEnabled>>

\* Hub.Run, case cmd := <-h.commands: go h.handleClientCommand(cmd)
HubCommand ==
    /\ ~Crashed
    /\ hubPc = "select"
    /\ commands # <<>>
    /\ Cardinality(handlers) < MaxHandlers
    /\ commands' = Tail(commands)
    /\ handlers' = handlers \cup {Head(commands)}
    /\ UNCHANGED <<hubVars, broadcast, pc, out, loopVars, radarVars, redisVars,
                   histVars, coalVars, shutVars, rout, emitLog, resp, qcap,
                   decVars, redisEnabled>>

\* getClientByID, hub.go:402-412
ClientsById(reg, id) == {c \in reg : ClientId(c) = id}

\* what handleClientCommand, hub.go:291-309, enqueues and for whom:
\* sendVelocityHistory and sendCurrentStatus have empty bodies (hub.go:311-321),
\* sendPong sends a pong to the client found by its identifier, an unknown
\* command is logged
CommandReply(reg, cmd) ==
    IF cmd.command = "ping"
      THEN [to |-> ClientsById(reg, cmd.client), msg |-> Msg("pong", cmd.time)]
      ELSE [to |-> {}, msg |-> NoMsg]

\* the goroutine handleClientCommand; its send on client.send blocks while the
\* queue is full and panics when it is closed
HandleClientCommand(cmd) ==
    /\ ~Crashed
    /\ cmd \in handlers
    /\ LET r == CommandReply(clients, cmd)
       IN  \/ /\ \E c \in r.to : closed[c]
              /\ handlers' = (handlers \ {cmd}) \cup {[cmd EXCEPT !.command = "panic"]}
              /\ UNCHANGED send
           \/ /\ \A c \in r.to : ~closed[c] /\ Len(send[c]) < qcap
              /\ send' = [c \in Clients |->
                            IF c \in r.to THEN Append(send[c], r.msg) ELSE send[c]]
              /\ handlers' = handlers \ {cmd}
    /\ UNCHANGED <<clients, closed, initPc, rpump, wpump, hubPc, deadClients, broadcast,
                   pc, out, loopVars, radarVars, redisVars, histVars, coalVars,
                   shutVars, commands, rout, emitLog, resp, qcap,
                   decVars, redisEnabled>>

\* The tail of BroadcastMetrics, BroadcastVelocityChanges and BroadcastStatus
\* (hub.go:242, 264, 284): the caller has serialized a message and is at
\* "h.broadcast <- jsonMessage".
Produce(m) ==
    /\ ~Crashed
    /\ pc = "idle"
    /\ todo = <<>>
    /\ pc' = "send"
    /\ out' = m
    /\ UNCHANGED <<hubVars, broadcast, loopVars, radarVars, redisVars, histVars,
                   coalVars, shutVars, reqVars, qcap, decVars, redisEnabled>>

\* A caller that acquires the numbered frames one after the other and calls
\* BroadcastMetrics for each (decoder.go:457-459): the frame is either dropped
\* by the coalescing of hub.go:205-218 or taken to "h.broadcast <- jsonMessage".
ProduceFrame ==
    /\ ~Crashed
    /\ pc = "idle"
    /\ todo = <<>>
    /\ cur.ts < Len(FrameTags)
    /\ cur' = [cur EXCEPT !.ts = @ + 1]
    /\ \/ /\ out' = Msg("metrics", FrameTags[cur'.ts])
          /\ pc' = "send"
       \/ UNCHANGED <<out, pc>>
    /\ UNCHANGED <<hubVars, broadcast, todo, consecutiveErrors, status, lastVelocities,
                   lastMetrics, cfgMax, startPc, radarVars, redisVars, histVars,
                   coalVars, shutVars, reqVars, qcap, decVars, redisEnabled>>

\* "h.broadcast <- jsonMessage": the send completes when the buffer has room.
ChanSend ==
    /\ ~Crashed
    /\ pc = "send"
    /\ Len(broadcast) < broadcastBufferSize
    /\ broadcast' = Append(broadcast, out)
    /\ out' = NoMsg
    /\ pc' = IF todo = <<>> THEN "idle" ELSE "run"
    /\ nStatus' = IF out.type = "status"
                    THEN [nStatus EXCEPT ![out.tag] = Min(@ + 1, MaxCount)]
                    ELSE nStatus
    /\ UNCHANGED <<hubVars, loopVars, radarVars, redisVars, tickLog, coalVars,
                   shutVars, reqVars, qcap, decVars, redisEnabled>>

----------------------------------------------------------------------------
\* Frames (models.RadarMetrics) and the sensor's replies

\* [7]float64 of models.RadarMetrics
NumChannels == 7

Channels == 1..NumChannels

\* const minVelocityChange = 0.01 of detectVelocityChanges, in 0.001 m/s
minVelocityChange == 10

\* the 0.05 m/s of BroadcastMetrics, in 0.001 m/s
significantVelocity == 50

\* the 50*time.Millisecond of BroadcastMetrics, in ms
coalesceWindow == 50

\* getDefaultConfig: MaxConsecutiveErrors
DefaultMaxConsecutiveErrors == 5

Zero7 == [i \in Channels |-> 0]

\* a vector that is zero except on the channels of f (a function from some
\* channels to values)
Vec(f) == [i \in Channels |-> IF i \in DOMAIN f THEN f[i] ELSE 0]

Reply(p, v, t) == [kind |-> "data", pos |-> p, vel |-> v, ts |-> t]

\* a reply of length zero
EmptyReply == [kind |-> "empty", pos |-> <<>>, vel |-> <<>>, ts |-> 0]

NoFrame == [pos |-> <<>>, vel |-> <<>>, st |-> "-", ts |-> 0, changes |-> <<>>]

\* a reply as DecodeValues sees it: the tokens strings.Fields finds in it (each
\* a sequence of characters) and the number of its other bytes (blanks and
\* control characters)
RawReply(tokens, blanks) == [tokens |-> tokens, blanks |-> blanks]

\* the result of DecodeValues: the error, the raw values read from the value
\* tokens, and the positions (in mm) and velocities of the frame
Decoded(err, posRaw, velRaw, pos, vel) ==
    [done |-> TRUE, err |-> err, posRaw |-> posRaw, velRaw |-> velRaw,
     pos |-> pos, vel |-> vel]

NotDecoded == [Decoded(FALSE, Zero7, Zero7, Zero7, Zero7) EXCEPT !.done = FALSE]

DecoderIdle == rx = RawReply(<<>>, 0) /\ dec = NotDecoded

\* RadarClient.DecodeValues with protocol "ascii": an empty reply is an error
\* (decoder.go:15-17), any other reply gives a frame with status "ok" and the
\* timestamp of its receipt.
DecodeFails(reply) == reply.kind = "empty"

DecodeValues(reply) ==
    [pos |-> reply.pos, vel |-> reply.vel, st |-> "ok", ts |-> reply.ts,
     changes |-> <<>>]

\* processTick, decoder.go:431-442: all seven positions are zero
AllZero(p) == \A i \in Channels : p[i] = 0

\* processTick, decoder.go:439-442: the frame's status after the check
TagAlwaysOk(m) == [m EXCEPT !.st = "ok"]

TagObstruction(m) == IF AllZero(m.pos) THEN [m EXCEPT !.st = "obstruido"] ELSE m

\* detectVelocityChanges, decoder.go:512-531: the event of channel i (index i-1)
ChangeEvent(last, m, i) ==
    [index |-> i - 1, old_value |-> last[i], new_value |-> m.vel[i],
     change_value |-> m.vel[i] - last[i], timestamp |-> m.ts]

\* the test of decoder.go:517
IsChangeStrict(last, m, i) == Abs(m.vel[i] - last[i]) > minVelocityChange

IsChange(last, m, i) == Abs(m.vel[i] - last[i]) >= minVelocityChange

\* detectVelocityChanges: metrics.VelocityChanges, in channel order
RECURSIVE ChangesFrom(_, _, _)
ChangesFrom(last, m, i) ==
    IF i > NumChannels THEN <<>>
    ELSE (IF IsChange(last, m, i) THEN <<ChangeEvent(last, m, i)>> ELSE <<>>)
         \o ChangesFrom(last, m, i + 1)

DetectVelocityChanges(last, m) == [m EXCEPT !.changes = ChangesFrom(last, m, 1)]

\* the reference of the next comparison, replaced on the changed channels only
CopyChangedOnly(last, m) ==
    [i \in Channels |-> IF IsChange(last, m, i) THEN m.vel[i] ELSE last[i]]

\* detectVelocityChanges, decoder.go:533-536: copy(s.lastVelocities[:],
\* metrics.Velocities[:]), the reference of the next comparison
CopyVelocities(last, m) == m.vel

\* BroadcastMetrics, hub.go:205-211
SignificantChange(vel, lastVel) ==
    \E i \in Channels : Abs(vel[i] - lastVel[i]) > significantVelocity

\* BroadcastMetrics, hub.go:197-218: shouldSend, for a call dt ms after
\* h.lastMetricsTime
ShouldSend(vel, lastVel, dt) ==
    ~(lastVel # Nil /\ dt < coalesceWindow /\ ~SignificantChange(vel, lastVel))

\* processTick, decoder.go:450-492: what is left to do once the frame has been
\* decoded, checked and cached, in the order of the code
PersistFirst(m) ==
    <<"persist", "BroadcastMetrics">>
    \o (IF m.changes # <<>> THEN <<"BroadcastVelocityChanges">> ELSE <<>>)

FanOutThenPersist(m) ==
    <<"BroadcastMetrics">>
    \o (IF m.changes # <<>> THEN <<"BroadcastVelocityChanges">> ELSE <<>>)
    \o <<"persist">>

\* where the loop goes when rest is what remains of the tick
After(rest) == IF rest = <<>> THEN "idle" ELSE "run"

\* time between two calls of BroadcastMetrics, in ms
Dts == {20, 50}

----------------------------------------------------------------------------
\* redis.Service (redis/service.go): the store and the three write pipelines.
\* A sorted set is a set of [member, score] records with one record per
\* member. A pipeline is applied as a whole when Exec succeeds and not at all
\* when it fails.

\* "mantém últimos 1000 pontos" of WriteMetrics (ZRemRangeByRank 0 -1001)
historySize == 2

\* s.maxVelocityHistorySize of NewService (100)
maxVelocityHistorySize == 2

\* the rings followed: the first position and the first velocity channel (the
\* fourteen rings are written by the same three commands)
RingKeys == {"pos1:history", "vel1:history", "vel2:history"}

EmptyScalars == [st |-> "-", ts |-> 0, pos |-> <<>>, vel |-> <<>>]

EmptyStore ==
    [scalars |-> EmptyScalars,
     hist |-> [k \in RingKeys |-> {}],
     changes |-> [i \in 0..(NumChannels - 1) |-> {}],
     allChanges |-> {},
     details |-> {}]

\* ZADD key score member: a member already in the set only changes its score
ZAdd(z, member, score) ==
    {e \in z : e.member # member} \cup {[member |-> member, score |-> score]}

\* the order of a sorted set: by score, members of equal score by member; a
\* member is a value <<v>> or a change key <<index, timestamp>>
MemberKey(m) == m[1]

ZBelow(e, f) ==
    \/ e.score < f.score
    \/ e.score = f.score /\ MemberKey(e.member) < MemberKey(f.member)

\* ZREMRANGEBYRANK key 0 -(n+1): remove all but the n highest-ranked members
TrimKeepsLowest(z, n) == {e \in z : Cardinality({f \in z : ZBelow(f, e)}) < n}

ZTrim(z, n) == {e \in z : Cardinality({f \in z : ZBelow(e, f)}) < n}

\* the value a ring stores for frame m
RingMember(k, m) ==
    IF k = "pos1:history" THEN <<m.pos[1]>>
    ELSE IF k = "vel1:history" THEN <<m.vel[1]>>
    ELSE <<m.vel[2]>>

\* WriteMetrics, service.go:112-154: the pipeline for frame m
MetricsPipeline(s, m, keys) ==
    [s EXCEPT
       !.scalars = IF "scalars" \in keys
                     THEN [st |-> m.st, ts |-> m.ts, pos |-> m.pos, vel |-> m.vel]
                     ELSE @,
       !.hist = IF "history" \in keys
                  THEN [k \in RingKeys |->
                          ZTrim(ZAdd(@[k], RingMember(k, m), m.ts), historySize)]
                  ELSE @]

\* WriteVelocityChanges, service.go:179-227: the key of a change and the
\* commands for one change after the other: SET of the detail scalar under the
\* key, ZADD and ZREMRANGEBYRANK on the index of the channel and on the global
\* index
ChangeKey(c) == <<c.index + 1, c.timestamp>>

RECURSIVE ChangesPipelineFrom(_, _, _, _)
ChangesPipelineFrom(s, cs, j, keys) ==
    IF j > Len(cs) THEN s
    ELSE ChangesPipelineFrom(
            [s EXCEPT
               !.details = IF "details" \in keys THEN @ \cup {ChangeKey(cs[j])} ELSE @,
               !.changes[cs[j].index] =
                   ZTrim(ZAdd(@, ChangeKey(cs[j]), cs[j].timestamp),
                         maxVelocityHistorySize),
               !.allChanges =
                   ZTrim(ZAdd(@, ChangeKey(cs[j]), cs[j].timestamp),
                         maxVelocityHistorySize)],
            cs, j + 1, keys)

ChangesPipeline(s, cs, keys) ==
    IF "changes" \in keys THEN ChangesPipelineFrom(s, cs, 1, keys) ELSE s

\* s.connected after pipe.Exec (service.go:155-163, 233-240, 278-285): an
\* error sets it to false
ExecIgnoresError(up) == TRUE

ExecMarks(up) == up

\* WriteStatus, service.go:262-276: the status key (the timestamp key takes the
\* time of the status change, which no frame carries)
StatusPipeline(s, st, keys) ==
    IF "scalars" \in keys THEN [s EXCEPT !.scalars.st = st.tag] ELSE s

----------------------------------------------------------------------------
\* radar.RadarClient (part_006) and radar.Service (decoder.go)

\* RadarClient.Connect, called by Service.Start (decoder.go:294) and by
\* SendCommand (part_006:62): it locks r.mutex, which is not reentrant, dials,
\* and sets r.connected.
Connect(g) ==
    /\ radarMutex = "free"
    /\ connected' = (connected \/ sensor = "up")
    /\ \/ /\ g = "start"
          /\ startPc = "connect"
          /\ startPc' = "done"
          /\ pc' = "idle"
          /\ UNCHANGED radarMutex
       \/ /\ g = "loop"
          /\ pc = "connect"
          /\ pc' = IF connected' THEN "io" ELSE "failed"
          /\ radarMutex' = IF connected' THEN "loop" ELSE "free"
          /\ UNCHANGED startPc
    /\ UNCHANGED <<hubVars, broadcast, out, todo, cur, consecutiveErrors, status,
                   lastVelocities, lastMetrics, cfgMax, sensor, sensorReplies,
                   redisVars, histVars, coalVars, shutVars, reqVars, qcap,
                   decVars, redisEnabled>>

ConnectStep == \E g \in {"start", "loop"} : Connect(g)

\* collectData, case <-ticker.C, up to SendCommand's "if !r.connected": the
\* loop holds r.mutex from here to the return of SendCommand.
Tick ==
    /\ pc = "idle"
    /\ todo = <<>>
    /\ startPc = "done"
    /\ radarMutex = "free"
    /\ radarMutex' = "loop"
    /\ pc' = IF connected THEN "io" ELSE "connect"
    /\ tickLog' = <<>>
    /\ UNCHANGED <<hubVars, broadcast, out, loopVars, connected, sensor, sensorReplies,
                   redisVars, nStatus, coalVars, shutVars, reqVars, qcap,
                   decVars, redisEnabled>>

\* SendCommand, part_006:67-84, and processTick, decoder.go:409-420: write and
\* read on the session; an error marks the session disconnected; a reply after
\* earlier errors resets the counter and sets status ok.
SendCommandIO ==
    /\ pc = "io"
    /\ radarMutex' = "free"
    /\ \/ /\ sensor = "down"
          /\ connected' = FALSE
          /\ pc' = "failed"
          /\ UNCHANGED <<todo, cur, consecutiveErrors>>
       \/ /\ sensor = "up"
          /\ \E r \in sensorReplies : cur' = r
          /\ consecutiveErrors' = 0
          /\ todo' = IF consecutiveErrors > 0 THEN <<"updateStatus_ok", "process">>
                                             ELSE <<"process">>
          /\ pc' = "run"
          /\ UNCHANGED connected
    /\ UNCHANGED <<hubVars, broadcast, out, status, lastVelocities, lastMetrics, cfgMax,
                   startPc, sensor, sensorReplies, redisVars, histVars, coalVars,
                   shutVars, reqVars, qcap, decVars, redisEnabled>>

\* handleConnectionError, decoder.go:540-557, up to the call of updateStatus
HandleConnectionError ==
    /\ pc = "failed"
    /\ consecutiveErrors' = consecutiveErrors + 1
    /\ connected' = FALSE
    /\ todo' = IF consecutiveErrors' > cfgMax THEN <<"updateStatus_falha", "sleep">>
                                              ELSE <<>>
    /\ pc' = After(todo')
    /\ UNCHANGED <<hubVars, broadcast, out, cur, status, lastVelocities, lastMetrics,
                   cfgMax, startPc, radarMutex, sensor, sensorReplies, redisVars,
                   histVars, coalVars, shutVars, reqVars, qcap, decVars, redisEnabled>>

StatusOfStep(step) == IF step = "updateStatus_ok" THEN "ok" ELSE "falha_comunicacao"

\* updateStatus, decoder.go:560-587: set s.status, WriteStatus when the adapter
\* is connected (a failed pipeline marks it disconnected), then BroadcastStatus
\* up to its send on h.broadcast.
UpdateStatus ==
    /\ pc = "run"
    /\ Head(todo) \in {"updateStatus_ok", "updateStatus_falha"}
    /\ sdPc # "close"
    /\ status' = [tag |-> StatusOfStep(Head(todo)), errorCount |-> consecutiveErrors]
    /\ IF redisConnected
         THEN /\ redisConnected' = ExecMarks(redisUp)
              /\ store' = IF redisUp THEN StatusPipeline(store, status', storeKeys)
                                     ELSE store
              /\ tickLog' = tickLog \o <<"WriteStatus", "BroadcastStatus">>
         ELSE /\ UNCHANGED <<redisConnected, store>>
              /\ tickLog' = Append(tickLog, "BroadcastStatus")
    /\ out' = Msg("status", status'.tag)
    /\ pc' = "send"
    /\ todo' = Tail(todo)
    /\ UNCHANGED <<hubVars, broadcast, cur, consecutiveErrors, lastVelocities,
                   lastMetrics, cfgMax, startPc, radarVars, writers, storeKeys, redisUp,
                   nStatus, coalVars, shutVars, reqVars, qcap, decVars, redisEnabled>>

\* handleConnectionError, decoder.go:555: time.Sleep(s.config.ReconnectDelay)
Sleep ==
    /\ pc = "run"
    /\ Head(todo) = "sleep"
    /\ pc' = "sleep"
    /\ todo' = Tail(todo)
    /\ UNCHANGED <<hubVars, broadcast, out, cur, consecutiveErrors, status,
                   lastVelocities, lastMetrics, cfgMax, startPc, radarVars, redisVars,
                   histVars, coalVars, shutVars, reqVars, qcap, decVars, redisEnabled>>

\* the sleep is over and handleConnectionError and processTick return
Wake ==
    /\ pc = "sleep"
    /\ pc' = After(todo)
    /\ UNCHANGED <<hubVars, broadcast, out, loopVars, radarVars, redisVars, histVars,
                   coalVars, shutVars, reqVars, qcap, decVars, redisEnabled>>

\* processTick, decoder.go:423-448: decode (an error ends the tick), tag an
\* all-zero frame, detect the velocity changes and replace s.lastVelocities,
\* cache the frame in s.lastMetrics.
ProcessFrame ==
    /\ pc = "run"
    /\ Head(todo) = "process"
    /\ IF DecodeFails(cur)
         THEN /\ todo' = <<>>
              /\ cur' = NoFrame
              /\ UNCHANGED <<lastVelocities, lastMetrics>>
         ELSE /\ cur' = DetectVelocityChanges(lastVelocities,
                                              TagObstruction(DecodeValues(cur)))
              /\ lastVelocities' = CopyVelocities(lastVelocities, cur')
              /\ lastMetrics' = cur'
              /\ todo' = FanOutThenPersist(cur')
    /\ pc' = After(todo')
    /\ UNCHANGED <<hubVars, broadcast, out, consecutiveErrors, status, cfgMax, startPc,
                   radarVars, redisVars, histVars, coalVars, shutVars, reqVars, qcap,
                   decVars, redisEnabled>>

\* Hub.BroadcastMetrics, hub.go:191-246, up to its send on h.broadcast:
\* h.lastMetrics and h.lastMetricsTime are replaced on every call.
BroadcastMetrics ==
    /\ pc = "run"
    /\ Head(todo) = "BroadcastMetrics"
    /\ \E dt \in Dts :
         /\ lastSent' = ShouldSend(cur.vel, hubLastMetrics, dt)
         /\ sinceSent' = IF sentVel = Nil THEN coalesceWindow
                         ELSE Min((IF lastSent THEN 0 ELSE sinceSent) + dt, coalesceWindow)
    /\ hubLastMetrics' = cur.vel
    /\ IF lastSent'
         THEN /\ out' = Msg("metrics", cur.st)
              /\ pc' = "send"
              /\ sentVel' = cur.vel
         ELSE /\ pc' = After(Tail(todo))
              /\ UNCHANGED <<out, sentVel>>
    /\ todo' = Tail(todo)
    /\ tickLog' = Append(tickLog, "BroadcastMetrics")
    /\ UNCHANGED <<hubVars, broadcast, cur, consecutiveErrors, status, lastVelocities,
                   lastMetrics, cfgMax, startPc, radarVars, redisVars, nStatus,
                   shutVars, reqVars, qcap, decVars, redisEnabled>>

\* Hub.BroadcastVelocityChanges, hub.go:249-268, up to its send on h.broadcast
BroadcastVelocityChanges ==
    /\ pc = "run"
    /\ Head(todo) = "BroadcastVelocityChanges"
    /\ out' = Msg("velocity_changes", "-")
    /\ pc' = "send"
    /\ todo' = Tail(todo)
    /\ tickLog' = Append(tickLog, "BroadcastVelocityChanges")
    /\ UNCHANGED <<hubVars, broadcast, cur, consecutiveErrors, status, lastVelocities,
                   lastMetrics, cfgMax, startPc, radarVars, redisVars, nStatus, coalVars,
                   shutVars, reqVars, qcap, decVars, redisEnabled>>

\* the argument m of the goroutine of decoder.go:468, with the fields only that
\* the followed keys of the store take from it (and whether it has changes)
WriterFrame(m, keys) ==
    [st |-> IF "scalars" \in keys THEN m.st ELSE "-",
     ts |-> IF keys # {} THEN m.ts ELSE 0,
     pos |-> IF keys \cap {"scalars", "history"} # {} THEN m.pos ELSE <<>>,
     vel |-> IF keys \cap {"scalars", "history"} # {} THEN m.vel ELSE <<>>,
     changes |-> IF "changes" \in keys \/ m.changes = <<>> THEN m.changes
                 ELSE <<"changes">>]

\* processTick, decoder.go:464-492: with the adapter connected, start a
\* goroutine that writes the frame and then its changes (s.asyncRedis is true:
\* NewService sets it and SetAsyncRedis has no caller).
Persist ==
    /\ pc = "run"
    /\ Head(todo) = "persist"
    /\ IF redisConnected
         THEN /\ Len(writers) < MaxWriters
              /\ writers' = Append(writers, [m |-> WriterFrame(cur, storeKeys),
                                             stage |-> "WriteMetrics"])
              /\ tickLog' = Append(tickLog, "persist")
         ELSE UNCHANGED <<writers, tickLog>>
    /\ todo' = Tail(todo)
    /\ pc' = After(todo')
    /\ UNCHANGED <<hubVars, broadcast, out, cur, consecutiveErrors, status,
                   lastVelocities, lastMetrics, cfgMax, startPc, radarVars,
                   redisConnected, store, storeKeys, redisUp, nStatus, coalVars,
                   shutVars, reqVars, qcap, decVars, redisEnabled>>

RemoveAt(q, i) == SubSeq(q, 1, i - 1) \o SubSeq(q, i + 1, Len(q))

\* what a write of the goroutine puts in the store when its pipeline succeeds
WriterPipeline(s, job, keys) ==
    IF job.stage = "WriteMetrics" THEN MetricsPipeline(s, job.m, keys)
                                  ELSE ChangesPipeline(s, job.m.changes, keys)

\* the goroutine of decoder.go:468-479: redis.Service.WriteMetrics, then
\* WriteVelocityChanges when the frame has changes; each returns at once when
\* the adapter is disconnected, and a failed pipeline marks it disconnected.
RedisWriter(i) ==
    /\ i \in 1..Len(writers)
    /\ IF redisConnected
         THEN /\ redisConnected' = ExecMarks(redisUp)
              /\ store' = IF redisUp THEN WriterPipeline(store, writers[i], storeKeys)
                                     ELSE store
         ELSE UNCHANGED <<redisConnected, store>>
    /\ writers' = IF writers[i].stage = "WriteMetrics" /\ writers[i].m.changes # <<>>
                    THEN [writers EXCEPT ![i].stage = "WriteVelocityChanges"]
                    ELSE RemoveAt(writers, i)
    /\ UNCHANGED <<hubVars, broadcast, pc, out, loopVars, radarVars, storeKeys, redisUp,
                   histVars, coalVars, shutVars, reqVars, qcap, decVars, redisEnabled>>

\* the Redis server or the network to it goes down or comes back
StoreChange ==
    /\ redisUp' = ~redisUp
    /\ UNCHANGED <<hubVars, broadcast, pc, out, loopVars, radarVars, redisConnected,
                   writers, store, storeKeys, histVars, coalVars, shutVars, reqVars,
                   qcap, decVars, redisEnabled>>

\* the sensor or the network to it goes down or comes back
SensorChange ==
    /\ sensor' = IF sensor = "up" THEN "down" ELSE "up"
    /\ UNCHANGED <<hubVars, broadcast, pc, out, loopVars, connected, radarMutex,
                   sensorReplies, redisVars, histVars, coalVars, shutVars, reqVars,
                   qcap, decVars, redisEnabled>>

\* Hub.Run, case message := <-h.broadcast, as the loop sees it: the hub takes
\* the oldest message off the channel.
HubTake ==
    /\ hubPc = "select"
    /\ broadcast # <<>>
    /\ broadcast' = Tail(broadcast)
    /\ UNCHANGED <<hubVars, pc, out, loopVars, radarVars, redisVars, histVars, coalVars,
                   shutVars, reqVars, qcap, decVars, redisEnabled>>

----------------------------------------------------------------------------
\* server.Server.Shutdown (part_003:155-187) and the code it runs

\* s.mutex of radar.Service is held by updateStatus from its first line to the
\* return of BroadcastStatus (decoder.go:560-587)
ServiceMutexFree == ~(pc = "send" /\ out.type = "status")

\* Shutdown up to the call of radarService.Stop: httpServer.Shutdown and
\* discoveryService.Stop, part_003:159-166
ServerShutdown ==
    /\ sdPc = "serving"
    /\ startPc = "done"
    /\ sdPc' = "stop"
    /\ UNCHANGED <<hubVars, broadcast, pc, out, loopVars, radarVars, redisVars,
                   histVars, coalVars, svcCtx, hubCtx, redisClosed, reqVars, qcap,
                   decVars, redisEnabled>>

\* radar.Service.Stop, decoder.go:310-319: s.mutex.Lock(); s.cancel()
StopCancel ==
    /\ sdPc = "stop"
    /\ ServiceMutexFree
    /\ svcCtx' = TRUE
    /\ sdPc' = "close"
    /\ UNCHANGED <<hubVars, broadcast, pc, out, loopVars, radarVars, redisVars,
                   histVars, coalVars, hubCtx, redisClosed, reqVars, qcap,
                   decVars, redisEnabled>>

\* radar.Service.Stop, decoder.go:320-321, with RadarClient.Close,
\* part_006:120-129: r.mutex.Lock(); r.conn.Close(); r.connected = false
StopClose ==
    /\ sdPc = "close"
    /\ radarMutex = "free"
    /\ connected' = FALSE
    /\ sdPc' = "hub"
    /\ UNCHANGED <<hubVars, broadcast, pc, out, loopVars, radarMutex, sensor,
                   sensorReplies, redisVars, histVars, coalVars, svcCtx, hubCtx,
                   redisClosed, reqVars, qcap, decVars, redisEnabled>>

\* Hub.Shutdown, hub.go:377: h.cancel()
HubCancel ==
    /\ sdPc = "hub"
    /\ hubCtx' = TRUE
    /\ sdPc' = "hubSleep"
    /\ UNCHANGED <<hubVars, broadcast, pc, out, loopVars, radarVars, redisVars,
                   histVars, coalVars, svcCtx, redisClosed, reqVars, qcap,
                   decVars, redisEnabled>>

\* Hub.Shutdown, hub.go:379-380: the 100 ms of time.Sleep have passed
HubShutdownReturn ==
    /\ sdPc = "hubSleep"
    /\ sdPc' = "redis"
    /\ UNCHANGED <<hubVars, broadcast, pc, out, loopVars, radarVars, redisVars,
                   histVars, coalVars, svcCtx, hubCtx, redisClosed, reqVars, qcap,
                   decVars, redisEnabled>>

\* redis.Service.Shutdown, service.go:509-524: s.cancel(), s.client.Close(),
\* s.connected = false. The adapter that NewService returns for a disabled
\* store (service.go:34-43) has no cancel function, and the call of a nil
\* function value panics.
RedisShutdown ==
    /\ sdPc = "redis"
    /\ IF redisEnabled
         THEN /\ redisClosed' = TRUE
              /\ redisConnected' = FALSE
              /\ sdPc' = "done"
         ELSE /\ sdPc' = "panic"
              /\ UNCHANGED <<redisClosed, redisConnected>>
    /\ UNCHANGED <<hubVars, broadcast, pc, out, loopVars, radarVars, writers, store,
                   storeKeys, redisUp, histVars, coalVars, svcCtx, hubCtx, reqVars,
                   qcap, decVars, redisEnabled>>

ShutdownStep ==
    \/ ServerShutdown
    \/ StopCancel
    \/ StopClose
    \/ HubCancel
    \/ HubShutdownReturn
    \/ RedisShutdown

\* collectData, case <-s.ctx.Done(): return (decoder.go:372-373); the select
\* may as well take a tick that is due
LoopCtxDone ==
    /\ pc = "idle"
    /\ todo = <<>>
    /\ svcCtx
    /\ pc' = "exited"
    /\ UNCHANGED <<hubVars, broadcast, out, loopVars, radarVars, redisVars, histVars,
                   coalVars, shutVars, reqVars, qcap, decVars, redisEnabled>>

\* closeAllClients, hub.go:383-392
CloseAllClients(cl, reg) == [c \in Clients |-> cl[c] \/ c \in reg]

\* Hub.Run, case <-h.ctx.Done(): h.closeAllClients(); return (hub.go:83-89)
HubCtxDone ==
    /\ ~Crashed
    /\ hubPc = "select"
    /\ hubCtx
    /\ closed' = CloseAllClients(closed, clients)
    /\ clients' = {}
    /\ hubPc' = "exited"
    /\ UNCHANGED <<send, initPc, rpump, wpump, deadClients, broadcast, pc, out,
                   loopVars, radarVars, redisVars, histVars, coalVars, shutVars,
                   reqVars, qcap, decVars, redisEnabled>>

----------------------------------------------------------------------------
\* States after construction

StatusTags == {"initializing", "ok", "falha_comunicacao", "obstruido"}

\* NewHub (hub.go:53-69), no client connected yet
HubInit ==
    /\ clients = {}
    /\ send = [c \in Clients |-> <<>>]
    /\ closed = [c \in Clients |-> FALSE]
    /\ initPc = [c \in Clients |-> "none"]
    /\ rpump = [c \in Clients |-> "none"]
    /\ wpump = [c \in Clients |-> "none"]
    /\ broadcast = <<>>
    /\ hubPc = "select"
    /\ deadClients = {}
    /\ hubLastMetrics = Nil
    /\ sentVel = Nil
    /\ sinceSent = 0
    /\ lastSent = FALSE
    /\ sdPc = "serving"
    /\ svcCtx = FALSE
    /\ hubCtx = FALSE
    /\ redisClosed = FALSE
    /\ commands = <<>>
    /\ handlers = {}
    /\ rout = [c \in Clients |-> NoOut]
    /\ emitLog = [c \in Clients |-> <<>>]
    /\ resp = NoResponse

\* The acquisition loop reduced to a caller of Broadcast*.
CallerInit ==
    /\ pc = "idle"
    /\ out = NoMsg
    /\ todo = <<>>
    /\ cur = NoFrame
    /\ consecutiveErrors = 0
    /\ status = [tag |-> "initializing", errorCount |-> 0]
    /\ lastVelocities = Zero7
    /\ lastMetrics = NoFrame
    /\ cfgMax = 0
    /\ startPc = "done"
    /\ connected = TRUE
    /\ radarMutex = "free"
    /\ sensor = "up"
    /\ sensorReplies = {}
    /\ redisConnected = FALSE
    /\ redisUp = FALSE
    /\ store = EmptyStore
    /\ storeKeys = {}
    /\ writers = <<>>
    /\ nStatus = [t \in StatusTags |-> 0]
    /\ tickLog = <<>>

----------------------------------------------------------------------------
\* The hub with its clients, fed by a caller of Broadcast*.

InitHub ==
    /\ HubInit /\ CallerInit /\ qcap = sendBufferSize
    /\ DecoderIdle /\ redisEnabled = TRUE

NextHub ==
    \/ \E c \in Clients : HubRegister(c)
    \/ \E c \in Clients : SendWelcome(c)
    \/ UnregisterStep
    \/ HubBroadcast
    \/ HubPing
    \/ \E c \in Clients : WritePumpRecv(c)
    \/ \E c \in Clients : WritePumpBatch(c)
    \/ \E c \in Clients : ReadPumpBreak(c)
    \/ \E m \in ProducerMsgs : Produce(m)
    \/ ChanSend

SpecHub == InitHub /\ [][NextHub]_vars

\* Every goroutine that can take a step takes one, and a readPump waiting at
\* "h.unregister <- c" is served when Run comes back to its select again and
\* again.
FairSpecHub ==
    /\ SpecHub
    /\ WF_vars(NextHub)
    /\ \A c \in Clients : SF_vars(Unregister(c, c))

----------------------------------------------------------------------------
\* The acquisition loop from Service.Start on, with the radar client, the
\* sensor, the Redis adapter and the hub as the receiver of h.broadcast.

Positions == {Zero7, Vec(1 :> 100), Vec(7 :> 100)}

LoopReplies ==
    {Reply(p, v, 1) : p \in Positions, v \in {Zero7, Vec(1 :> 5 @@ 2 :> 20)}}
    \cup {EmptyReply}

\* NewService (decoder.go:254-270) and NewRadarClient (part_006:25-31)
ServiceInit ==
    /\ pc = "off"
    /\ startPc = "connect"
    /\ connected = FALSE
    /\ out = NoMsg
    /\ todo = <<>>
    /\ cur = NoFrame
    /\ consecutiveErrors = 0
    /\ status = [tag |-> "initializing", errorCount |-> 0]
    /\ lastVelocities = Zero7
    /\ lastMetrics = NoFrame
    /\ radarMutex = "free"
    /\ writers = <<>>
    /\ nStatus = [t \in StatusTags |-> 0]
    /\ tickLog = <<>>

\* redis.NewService (service.go:34-77): the adapter is connected when the
\* server answers the probe
InitLoop ==
    /\ HubInit
    /\ qcap = sendBufferSize /\ DecoderIdle /\ redisEnabled = TRUE
    /\ ServiceInit
    /\ cfgMax \in {0, DefaultMaxConsecutiveErrors}
    /\ sensor \in {"up", "down"}
    /\ sensorReplies = LoopReplies
    /\ redisUp \in BOOLEAN
    /\ redisConnected = redisUp
    /\ store = EmptyStore
    /\ storeKeys = {}

LoopStep ==
    \/ ConnectStep
    \/ Tick
    \/ SendCommandIO
    \/ HandleConnectionError
    \/ UpdateStatus
    \/ Sleep
    \/ Wake
    \/ ProcessFrame
    \/ BroadcastMetrics
    \/ BroadcastVelocityChanges
    \/ Persist
    \/ ChanSend

RedisStep == \E i \in 1..MaxWriters : RedisWriter(i)

NextLoop ==
    \/ LoopStep
    \/ RedisStep
    \/ HubTake
    \/ SensorChange
    \/ StoreChange

SpecLoop == InitLoop /\ [][NextLoop]_vars

\* every goroutine that can take a step eventually takes one
FairSpecLoop ==
    SpecLoop /\ WF_vars(LoopStep) /\ WF_vars(RedisStep) /\ WF_vars(HubTake)

----------------------------------------------------------------------------
\* The loop with a sensor that answers every poll and the adapter
\* disconnected, over frames that exercise the two velocity thresholds.

DetectVels ==
    {Zero7, Vec(1 :> 5 @@ 2 :> 20), Vec(1 :> 10), Vec(1 :> 5), Vec(7 :> -10),
     Vec(1 :> 10 @@ 2 :> 20 @@ 7 :> -10)}

DetectReplies == {Reply(Vec(1 :> 100), v, t) : v \in DetectVels, t \in {1, 2}}

CoalesceVels == {Zero7, Vec(1 :> 30), Vec(1 :> 50), Vec(1 :> 60), Vec(1 :> -30)}

CoalesceReplies == {Reply(Vec(1 :> 100), v, 1) : v \in CoalesceVels}

InitFrames ==
    /\ HubInit
    /\ qcap = sendBufferSize /\ DecoderIdle /\ redisEnabled = TRUE
    /\ ServiceInit
    /\ cfgMax = DefaultMaxConsecutiveErrors
    /\ sensor = "up"
    /\ sensorReplies \in {DetectReplies, CoalesceReplies}
    /\ redisUp = FALSE
    /\ redisConnected = FALSE
    /\ store = EmptyStore
    /\ storeKeys = {}

NextFrames ==
    \/ Connect("start")
    \/ Tick
    \/ SendCommandIO
    \/ ProcessFrame
    \/ BroadcastMetrics
    \/ BroadcastVelocityChanges
    \/ Persist
    \/ ChanSend
    \/ HubTake

SpecFrames == InitFrames /\ [][NextFrames]_vars

----------------------------------------------------------------------------
\* The loop with a sensor that answers every poll, each reply received later
\* than the one before, and the Redis adapter with the store it writes.

\* the latest time of receipt
MaxStamp == 3

StoreReplies ==
    {Reply(Vec(1 :> 100), Vec(1 :> v), t) : v \in {0, 10}, t \in 1..MaxStamp}

StoreKeys == {"scalars", "history", "changes"}

InitStore ==
    /\ HubInit
    /\ qcap = sendBufferSize /\ DecoderIdle /\ redisEnabled = TRUE
    /\ ServiceInit
    /\ cfgMax \in {0, DefaultMaxConsecutiveErrors}
    /\ sensor = "up"
    /\ sensorReplies = StoreReplies
    /\ redisUp = TRUE
    /\ redisConnected = TRUE
    /\ store = EmptyStore
    /\ storeKeys = StoreKeys

\* a poll that fails, or whose reply is received after the frame before it
\* (time.Now() of DecodeValues, part_006:90)
TimedPoll == SendCommandIO /\ (pc' = "failed" \/ cur'.ts > lastMetrics.ts)

TimedLoopStep ==
    \/ ConnectStep
    \/ Tick
    \/ TimedPoll
    \/ HandleConnectionError
    \/ UpdateStatus
    \/ Sleep
    \/ Wake
    \/ ProcessFrame
    \/ BroadcastMetrics
    \/ BroadcastVelocityChanges
    \/ Persist
    \/ ChanSend

NextStore ==
    \/ TimedLoopStep
    \/ RedisStep
    \/ HubTake
    \/ SensorChange
    \/ StoreChange

SpecStore == InitStore /\ [][NextStore]_vars

\* the store followed for its change indexes and the detail scalars of the
\* changes only
InitDetails ==
    /\ HubInit
    /\ qcap = sendBufferSize /\ DecoderIdle /\ redisEnabled = TRUE
    /\ ServiceInit
    /\ cfgMax \in {0, DefaultMaxConsecutiveErrors}
    /\ sensor = "up"
    /\ sensorReplies = StoreReplies
    /\ redisUp = TRUE
    /\ redisConnected = TRUE
    /\ store = EmptyStore
    /\ storeKeys = {"changes", "details"}

SpecDetails == InitDetails /\ [][NextStore]_vars

\* a bound on the writes pending, below the cap that keeps the model finite
PendingLimit == 1

----------------------------------------------------------------------------
\* The hub with its clients and a caller of Broadcast*, shut down at any moment.

NextHubDown ==
    \/ NextHub
    \/ ShutdownStep
    \/ LoopCtxDone
    \/ HubCtxDone

SpecHubDown == InitHub /\ [][NextHubDown]_vars

----------------------------------------------------------------------------
\* The hub with clients that send commands; the broadcasts are the hub's pings.

InboundMsgs ==
    {AppPing("t1"), ParamsPing("t1"), GetHistoryCmd(3), GetStatusCmd, UnknownCmd,
     Garbage}

\* the clients that send messages in this run; the other one only listens
Senders == {1}

NextCmd ==
    \/ \E c \in Clients : HubRegister(c)
    \/ \E c \in Clients : SendWelcome(c)
    \/ UnregisterStep
    \/ HubBroadcast
    \/ HubPing
    \/ \E c \in Clients : WritePumpRecv(c)
    \/ \E c \in Clients : WritePumpBatch(c)
    \/ \E c \in Clients : ReadPumpBreak(c)
    \/ \E c \in Senders : \E m \in InboundMsgs : ReadPumpMessage(c, m)
    \/ \E c \in Clients : ReadPumpReply(c)
    \/ \E c \in Clients : ReadPumpCommand(c)
    \/ HubCommand
    \/ \E cmd \in handlers : HandleClientCommand(cmd)

SpecCmd == InitHub /\ [][NextCmd]_vars

----------------------------------------------------------------------------
\* The HTTP API over the store and the acquisition service.

\* a response written by a handler to the request req; seg is the last segment
\* of the path of a velocity-history request, a sequence of characters
Response(req, seg, code, body) == [req |-> req, seg |-> seg, code |-> code, body |-> body]

Digits == {"0", "1", "2", "3", "4", "5", "6", "7", "8", "9"}

DigitValue(ch) ==
    CASE ch = "0" -> 0 [] ch = "1" -> 1 [] ch = "2" -> 2 [] ch = "3" -> 3
      [] ch = "4" -> 4 [] ch = "5" -> 5 [] ch = "6" -> 6 [] ch = "7" -> 7
      [] ch = "8" -> 8 [] ch = "9" -> 9

RECURSIVE DecimalValue(_)
DecimalValue(ds) ==
    IF ds = <<>> THEN 0
    ELSE 10 * DecimalValue(SubSeq(ds, 1, Len(ds) - 1)) + DigitValue(ds[Len(ds)])

\* strconv.Atoi: an optional sign, then one decimal digit or more
Atoi(s) ==
    LET ds == IF s # <<>> /\ s[1] \in {"+", "-"} THEN Tail(s) ELSE s
    IN  IF ds = <<>> \/ \E i \in 1..Len(ds) : ds[i] \notin Digits
          THEN [err |-> TRUE, n |-> 0]
          ELSE [err |-> FALSE,
                n |-> IF s[1] = "-" THEN 0 - DecimalValue(ds) ELSE DecimalValue(ds)]

HistoryIndexOkFromZero(index) == index >= 0 /\ index <= 7

\* handlers.go:155: index < 1 || index > 7 is refused
HistoryIndexOk(index) == index >= 1 /\ index <= 7

\* fmt.Sprintf("%s:vel%d:history", s.prefix, index)
VelHistoryKeys ==
    <<"vel1:history", "vel2:history", "vel3:history", "vel4:history",
      "vel5:history", "vel6:history", "vel7:history">>

\* the sorted set under a key; the keys the model does not write hold nothing
Ring(s, key) == IF key \in RingKeys THEN s.hist[key] ELSE {}

\* ZRANGE key 0 -1 WITHSCORES: every member, lowest rank first
RECURSIVE ZRange(_)
ZRange(z) ==
    IF z = {} THEN <<>>
    ELSE LET e == CHOOSE e \in z : \A f \in z \ {e} : ZBelow(e, f)
         IN  <<e>> \o ZRange(z \ {e})

HistoryPoint(e) == [value |-> e.member[1], timestamp |-> e.score]

\* redis Service.GetVelocityHistory, service.go:461-506
RedisGetVelocityHistory(conn, up, s, index) ==
    IF ~conn \/ index < 1 \/ index > 7 \/ ~up
      THEN [err |-> TRUE, points |-> <<>>]
      ELSE LET zr == ZRange(Ring(s, VelHistoryKeys[index]))
           IN  [err |-> FALSE, points |-> [i \in 1..Len(zr) |-> HistoryPoint(zr[i])]]

\* time.Now() at a request, later than the receipt of every frame
Now == MaxStamp + 1

\* the fields of a frame that GET /api/current answers with
MetricsView(m) == [st |-> m.st, ts |-> m.ts, pos |-> m.pos, vel |-> m.vel]

\* redis Service.GetCurrentData, service.go:345-397: after the check of
\* s.connected every failed Get leaves the default of its field, and the
\* function returns no error
RedisGetCurrentData(conn, up, s) ==
    IF ~conn THEN [err |-> TRUE, m |-> MetricsView(NoFrame)]
    ELSE [err |-> FALSE,
          m |-> [st |-> IF up /\ s.scalars.st # "-" THEN s.scalars.st ELSE "desconhecido",
                 ts |-> IF up /\ s.scalars.ts # 0 THEN s.scalars.ts ELSE Now,
                 pos |-> IF up /\ s.scalars.pos # <<>> THEN s.scalars.pos ELSE Zero7,
                 vel |-> IF up /\ s.scalars.vel # <<>> THEN s.scalars.vel ELSE Zero7]]

\* redis Service.GetStatus, service.go:291-342: the Get of the status key fails
\* when the server is away and when the key does not exist (redis.Nil)
RedisGetStatus(conn, up, s) ==
    IF ~conn \/ ~up \/ s.scalars.st = "-"
      THEN [err |-> TRUE, tag |-> "-"]
      ELSE [err |-> FALSE, tag |-> s.scalars.st]

StatusView(tag) == [status |-> tag]

ApiUnchanged ==
    UNCHANGED <<hubVars, broadcast, pc, out, loopVars, radarVars, redisVars, histVars,
                coalVars, shutVars, commands, handlers, rout, emitLog, qcap,
                decVars, redisEnabled>>

\* Handler.GetStatus, handlers.go:32-68
ApiGetStatus ==
    /\ resp = NoResponse
    /\ LET r == RedisGetStatus(redisConnected, redisUp, store)
       IN  resp' = Response("status", <<>>, 200,
                            <<StatusView(IF redisConnected /\ ~r.err THEN r.tag
                                                                     ELSE status.tag)>>)
    /\ ApiUnchanged

\* Handler.GetCurrentData, handlers.go:71-111; s.lastMetrics is nil until the
\* first frame
ApiGetCurrentData ==
    /\ resp = NoResponse
    /\ LET r == RedisGetCurrentData(redisConnected, redisUp, store)
       IN  resp' = IF redisConnected /\ ~r.err
                     THEN Response("current", <<>>, 200, <<r.m>>)
                     ELSE IF lastMetrics = NoFrame
                            THEN Response("current", <<>>, 404, <<>>)
                            ELSE Response("current", <<>>, 200, <<MetricsView(lastMetrics)>>)
    /\ ApiUnchanged

\* Handler.GetVelocityHistory, handlers.go:140-178, for the path
\* /api/velocity-history/<seg>
ApiGetVelocityHistory(seg) ==
    /\ resp = NoResponse
    /\ LET a == Atoi(seg)
           h == RedisGetVelocityHistory(redisConnected, redisUp, store, a.n)
       IN  resp' = IF a.err \/ ~HistoryIndexOk(a.n)
                     THEN Response("velocity-history", seg, 400, <<>>)
                     ELSE Response("velocity-history", seg, 200,
                                   IF redisConnected /\ ~h.err THEN h.points ELSE <<>>)
    /\ ApiUnchanged

\* the handler returns
ApiReturn ==
    /\ resp # NoResponse
    /\ resp' = NoResponse
    /\ ApiUnchanged

\* last segments of request paths: numerals inside and outside 1..7, signed,
\* and segments that are no numerals
Segments ==
    {<<"1">>, <<"2">>, <<"7">>, <<"0">>, <<"8">>, <<"1", "0">>, <<"-", "1">>,
     <<"+", "2">>, <<"a">>, <<>>}

ApiReplies ==
    {Reply(Vec(1 :> 100), Vec((1 :> v) @@ (2 :> 10 - v)), t) :
        v \in {0, 10}, t \in 1..MaxStamp}

InitApi ==
    /\ HubInit
    /\ qcap = sendBufferSize /\ DecoderIdle /\ redisEnabled = TRUE
    /\ ServiceInit
    /\ cfgMax = DefaultMaxConsecutiveErrors
    /\ sensor = "up"
    /\ sensorReplies = ApiReplies
    /\ redisUp = TRUE
    /\ redisConnected = TRUE
    /\ store = EmptyStore
    /\ storeKeys = StoreKeys

\* a request is answered from the state it finds: nothing else takes a step
\* between the reads of a handler and its response
NextApi ==
    \/ resp = NoResponse /\ TimedLoopStep
    \/ resp = NoResponse /\ RedisStep
    \/ resp = NoResponse /\ HubTake
    \/ resp = NoResponse /\ StoreChange
    \/ ApiGetStatus
    \/ ApiGetCurrentData
    \/ \E seg \in Segments : ApiGetVelocityHistory(seg)
    \/ ApiReturn

SpecApi == InitApi /\ [][NextApi]_vars

----------------------------------------------------------------------------
\* RadarClient.DecodeValues on the tokens of a reply.

HexDigits ==
    {"0", "1", "2", "3", "4", "5", "6", "7", "8", "9",
     "A", "B", "C", "D", "E", "F", "a", "b", "c", "d", "e", "f"}

HexDigitValue(ch) ==
    CASE ch \in Digits -> DigitValue(ch)
      [] ch \in {"A", "a"} -> 10 [] ch \in {"B", "b"} -> 11 [] ch \in {"C", "c"} -> 12
      [] ch \in {"D", "d"} -> 13 [] ch \in {"E", "e"} -> 14 [] ch \in {"F", "f"} -> 15

RECURSIVE HexNumber(_)
HexNumber(ds) ==
    IF ds = <<>> THEN 0
    ELSE 16 * HexNumber(SubSeq(ds, 1, Len(ds) - 1)) + HexDigitValue(ds[Len(ds)])

RECURSIVE StripZeros(_)
StripZeros(ds) == IF ds # <<>> /\ ds[1] = "0" THEN StripZeros(Tail(ds)) ELSE ds

\* strconv.ParseInt(s, 16, 32): an optional sign and hexadecimal digits; a
\* value outside the 32-bit integers is an error
ParseInt16(s) ==
    LET neg == s # <<>> /\ s[1] = "-"
        ds  == IF s # <<>> /\ s[1] \in {"+", "-"} THEN Tail(s) ELSE s
        sig == StripZeros(ds)
        min == sig = <<"8", "0", "0", "0", "0", "0", "0", "0">>
    IN  IF ds = <<>> \/ \E i \in 1..Len(ds) : ds[i] \notin HexDigits
          THEN [err |-> TRUE, n |-> 0]
        ELSE IF neg /\ min THEN [err |-> FALSE, n |-> (0 - 2147483647) - 1]
        ELSE IF Len(sig) > 8 \/ (Len(sig) = 8 /\ HexDigitValue(sig[1]) >= 8)
          THEN [err |-> TRUE, n |-> 0]
        ELSE [err |-> FALSE, n |-> IF neg THEN 0 - HexNumber(sig) ELSE HexNumber(sig)]

\* smallHexToInt, decoder.go:189-196
SmallHexToInt(s) == IF ParseInt16(s).err THEN 0 ELSE ParseInt16(s).n

\* math.Float32frombits for the bit patterns of the scales of the model:
\* 00000000 is 0, 3F800000 is 1, 40000000 is 2
Float32FromBits(sig) ==
    CASE sig = <<>> -> 0
      [] sig = <<"3", "F", "8", "0", "0", "0", "0", "0">> -> 1
      [] sig = <<"4", "0", "0", "0", "0", "0", "0", "0">> -> 2

\* hexStringToFloat32, decoder.go:176-187: 0 when ParseUint(s, 16, 32) fails
HexStringToFloat32(s) ==
    IF s = <<>> \/ (\E i \in 1..Len(s) : s[i] \notin HexDigits) \/ Len(StripZeros(s)) > 8
      THEN 0
      ELSE Float32FromBits(StripZeros(s))

PosTag == <<"P", "3", "D", "X", "1">>

VelTag == <<"V", "3", "D", "X", "1">>

\* the place of the first token equal to tag, 0 when there is none
FindToken(tokens, tag) ==
    IF \E i \in 1..Len(tokens) : tokens[i] = tag
      THEN CHOOSE i \in 1..Len(tokens) :
              tokens[i] = tag /\ \A j \in 1..(i - 1) : tokens[j] # tag
      ELSE 0

\* a block at place p has its count token
BlockComplete(tokens, p) == p # 0 /\ p + 3 <= Len(tokens)

\* numValues: the count token read by strconv.Atoi, 7 when it is no number,
\* at most 7
NumValues(tokens, p) ==
    LET a == Atoi(tokens[p + 3])
    IN  IF a.err THEN 7 ELSE IF a.n > 7 THEN 7 ELSE a.n

\* the channels whose value token the loop of a block reads
ValueSlots(tokens, p) ==
    IF BlockComplete(tokens, p)
      THEN {i \in Channels : i <= NumValues(tokens, p) /\ p + 3 + i <= Len(tokens)}
      ELSE {}

Unsigned16(raw) == raw

\* processVelocityBlock, decoder.go:160-163
Signed16(raw) == IF raw > 32767 THEN raw - 65536 ELSE raw

\* processPositionBlock, decoder.go:68-117: the raw values and the positions
\* in mm (the code divides by 1000 to get metres)
ProcessPositionBlock(tokens) ==
    LET p == FindToken(tokens, PosTag)
        raw == [i \in Channels |->
                  IF i \in ValueSlots(tokens, p)
                    THEN SmallHexToInt(tokens[p + 3 + i]) ELSE 0]
    IN  IF ~BlockComplete(tokens, p)
          THEN [err |-> TRUE, raw |-> Zero7, val |-> Zero7]
          ELSE [err |-> FALSE, raw |-> raw,
                val |-> [i \in Channels |-> raw[i] * HexStringToFloat32(tokens[p + 1])]]

\* processVelocityBlock, decoder.go:120-174
ProcessVelocityBlock(tokens) ==
    LET p == FindToken(tokens, VelTag)
        raw == [i \in Channels |->
                  IF i \in ValueSlots(tokens, p)
                    THEN Signed16(SmallHexToInt(tokens[p + 3 + i])) ELSE 0]
    IN  IF ~BlockComplete(tokens, p)
          THEN [err |-> TRUE, raw |-> Zero7, val |-> Zero7]
          ELSE [err |-> FALSE, raw |-> raw,
                val |-> [i \in Channels |-> raw[i] * HexStringToFloat32(tokens[p + 1])]]

\* len(response) == 0
ReplyIsEmpty(r) == r.tokens = <<>> /\ r.blanks = 0

\* decodeASCII, decoder.go:14-58: an empty reply is an error; the errors of the
\* two blocks are logged and dropped
DecodeASCII(r) ==
    IF ReplyIsEmpty(r)
      THEN Decoded(TRUE, Zero7, Zero7, Zero7, Zero7)
      ELSE Decoded(FALSE,
                   ProcessPositionBlock(r.tokens).raw, ProcessVelocityBlock(r.tokens).raw,
                   ProcessPositionBlock(r.tokens).val, ProcessVelocityBlock(r.tokens).val)

\* RadarClient.DecodeValues with protocol "ascii", part_006:88-103
Decode ==
    /\ ~dec.done
    /\ dec' = DecodeASCII(rx)
    /\ UNCHANGED <<hubVars, broadcast, pc, out, loopVars, radarVars, redisVars, histVars,
                   coalVars, shutVars, reqVars, qcap, rx, redisEnabled>>

\* value tokens of a block in the model: at most this many
MaxValues == 2

PosValueTokens == {<<"0", "0", "1", "4">>, <<"F", "F", "F", "6">>}

VelValueTokens ==
    {<<"0", "0", "1", "4">>, <<"7", "F", "F", "F">>, <<"8", "0", "0", "0">>,
     <<"F", "F", "F", "6">>, <<"F", "F", "F", "F">>}

CountTokens == {<<"1">>, <<"2">>, <<"7">>, <<"x">>}

Scale1 == <<"3", "F", "8", "0", "0", "0", "0", "0">>

Scale2 == <<"4", "0", "0", "0", "0", "0", "0", "0">>

SeqsUpTo(S, n) == UNION {[1..k -> S] : k \in 0..n}

\* a block: missing, cut after its tag, its scale or its unused token, or with
\* its count and some values
Blocks(tag, scales, values) ==
    {<<>>, <<tag>>}
    \cup {<<tag, sc>> : sc \in scales}
    \cup {<<tag, sc, <<"0">>>> : sc \in scales}
    \cup {<<tag, sc, <<"0">>, n>> \o vs :
             sc \in scales, n \in CountTokens, vs \in SeqsUpTo(values, MaxValues)}

\* the empty reply, a reply of blanks, and telegrams with a position block
\* and a velocity block
RawReplies ==
    {RawReply(<<>>, 0), RawReply(<<>>, 2)}
    \cup {RawReply(<<<<"s", "S", "N">>>> \o pb \o vb, 1) :
             pb \in Blocks(PosTag, {Scale1}, PosValueTokens),
             vb \in Blocks(VelTag, {Scale1, Scale2}, VelValueTokens)}

InitDecode ==
    /\ HubInit /\ CallerInit /\ qcap = sendBufferSize
    /\ rx \in RawReplies
    /\ dec = NotDecoded
    /\ redisEnabled = TRUE

NextDecode == Decode

SpecDecode == InitDecode /\ [][NextDecode]_vars

\* s.running of the radar service: set at the end of Start (decoder.go:307),
\* cleared at the end of Stop (decoder.go:321)
ServiceRunning == startPc = "done" /\ sdPc \in {"serving", "stop", "close"}

\* Server.healthHandler, routes.go:49-97: the radar is "offline" when
\* IsRunning() is false, the store when IsConnected() is false; the status
\* record of the service is not read
HealthStatus(running, tag, redisOk) ==
    IF ~running \/ ~redisOk THEN "degraded" ELSE "ok"

\* Server.healthHandler; IsRunning takes s.mutex.RLock (decoder.go:325-329)
ApiHealth ==
    /\ resp = NoResponse
    /\ ServiceMutexFree
    /\ resp' = Response("health", <<>>, 200,
                        <<StatusView(HealthStatus(ServiceRunning, status.tag,
                                                  redisConnected))>>)
    /\ ApiUnchanged

\* the health endpoint next to the acquisition loop, with a sensor and a store
\* that go away and come back
NextHealth ==
    \/ resp = NoResponse /\ TimedLoopStep
    \/ resp = NoResponse /\ RedisStep
    \/ resp = NoResponse /\ HubTake
    \/ resp = NoResponse /\ SensorChange
    \/ resp = NoResponse /\ StoreChange
    \/ ApiHealth
    \/ ApiReturn

SpecHealth == InitStore /\ [][NextHealth]_vars

----------------------------------------------------------------------------
\* The hub with its clients, fed with numbered frames; the queues of the
\* clients hold one message more than sendBufferSize.

InitOrder ==
    /\ HubInit /\ CallerInit /\ qcap = sendBufferSize + 1
    /\ DecoderIdle /\ redisEnabled = TRUE

NextOrder ==
    \/ \E c \in Clients : HubRegister(c)
    \/ \E c \in Clients : SendWelcome(c)
    \/ UnregisterStep
    \/ HubBroadcast
    \/ \E c \in Clients : WritePumpRecv(c)
    \/ \E c \in Clients : WritePumpBatch(c)
    \/ \E c \in Clients : ReadPumpBreak(c)
    \/ ProduceFrame
    \/ ChanSend

SpecOrder == InitOrder /\ [][NextOrder]_vars

----------------------------------------------------------------------------
\* The acquisition loop with its write goroutines, shut down at any moment.

DownReplies == {Reply(Vec(1 :> 100), Vec(1 :> 20), 1)}

InitLoopDown ==
    /\ HubInit
    /\ qcap = sendBufferSize /\ DecoderIdle /\ redisEnabled = TRUE
    /\ ServiceInit
    /\ cfgMax \in {0, DefaultMaxConsecutiveErrors}
    /\ sensor \in {"up", "down"}
    /\ sensorReplies = DownReplies
    /\ redisUp = TRUE
    /\ redisConnected = TRUE
    /\ store = EmptyStore
    /\ storeKeys = {}

NextLoopDown ==
    \/ LoopStep
    \/ RedisStep
    \/ HubTake
    \/ SensorChange
    \/ ShutdownStep
    \/ LoopCtxDone
    \/ HubCtxDone

SpecLoopDown == InitLoopDown /\ [][NextLoopDown]_vars

\* the same server with the store disabled by configuration: redis.NewService
\* returns an adapter that is never connected (service.go:34-43) and no write
\* goroutine is ever started
InitDisabled ==
    /\ HubInit
    /\ qcap = sendBufferSize /\ DecoderIdle
    /\ redisEnabled = FALSE
    /\ ServiceInit
    /\ cfgMax \in {0, DefaultMaxConsecutiveErrors}
    /\ sensor \in {"up", "down"}
    /\ sensorReplies = DownReplies
    /\ redisUp \in BOOLEAN
    /\ redisConnected = FALSE
    /\ store = EmptyStore
    /\ storeKeys = {}

NextDisabled ==
    \/ LoopStep
    \/ HubTake
    \/ SensorChange
    \/ ShutdownStep
    \/ LoopCtxDone
    \/ HubCtxDone

SpecDisabled == InitDisabled /\ [][NextDisabled]_vars

\* every goroutine that can take a step eventually takes one; a goroutine
\* waiting for a mutex gets it if the mutex is free again and again
FairSpecLoopDown ==
    /\ SpecLoopDown
    /\ WF_vars(LoopStep)
    /\ WF_vars(RedisStep)
    /\ WF_vars(HubTake)
    /\ WF_vars(ServerShutdown)
    /\ SF_vars(StopCancel)
    /\ SF_vars(StopClose)

----------------------------------------------------------------------------
\* Properties of the hub (checked under SpecHub)

\* Hub.Run at hub.go:150-152, sending the clients it found full to itself
HubEvictSend == \E c \in Clients : Unregister(HubRun, c)

\* C1: when the hub has found a subscriber's queue full while processing a
\* broadcast, it removes the subscriber, closes its queue and goes on serving:
\* the eviction it has started can always complete.
C1_EvictionCompletes == hubPc = "evict" => ENABLED HubEvictSend

\* C2: for every message the hub takes from h.broadcast, every registered
\* client whose queue has room gets exactly one copy appended, whatever the
\* other clients' queues hold; a full client's queue is left as it is.
C2_FanOutIsolation ==
    [][(hubPc = "select" /\ broadcast # <<>> /\ broadcast' = Tail(broadcast))
        => \A c \in clients :
              send'[c] = IF Len(send[c]) < qcap
                           THEN Append(send[c], Head(broadcast))
                           ELSE send[c]]_vars

\* a broadcast has been fanned out while one client was full, and another
\* registered client holds its copy
C2_Witness ==
    /\ hubPc = "evict"
    /\ \E d \in deadClients : \E c \in clients \ deadClients :
          /\ send[c] # <<>>
          /\ send[c][Len(send[c])].type = "metrics"

\* C3: a caller of BroadcastMetrics, BroadcastVelocityChanges or
\* BroadcastStatus that has reached the hand-off can always complete it, also
\* with h.broadcast full or the hub stalled.
C3_HandOffReturns == pc = "send" => ENABLED ChanSend

----------------------------------------------------------------------------
\* Properties of the acquisition loop (checked under SpecLoop, FairSpecLoop
\* and SpecFrames)

\* C4: after a transport failure has marked the session disconnected, the next
\* tick's SendCommand re-establishes the session and returns: the loop, at the
\* call of Connect inside SendCommand, can always go on.
C4_PollReturns == pc = "connect" => ENABLED Connect("loop")

\* C5: with max_consecutive_errors = 5, once the sensor answers again after
\* failed polls, the loop resets the error counter to zero and sets and
\* publishes status ok (unless the sensor goes down again first).
C5_TransientRecovery ==
    (cfgMax = DefaultMaxConsecutiveErrors /\ consecutiveErrors > 0 /\ sensor = "up")
        ~> ((consecutiveErrors = 0 /\ status.tag = "ok") \/ sensor = "down")

\* C6: with max_consecutive_errors = 5, polls that keep failing are counted
\* until the counter exceeds the threshold and status comm_failure is set
\* (unless the sensor comes back first).
C6_ThresholdRaisesCommFailure ==
    (cfgMax = DefaultMaxConsecutiveErrors /\ consecutiveErrors > 0)
        ~> (status.tag = "falha_comunicacao" \/ sensor = "up")

C8_ChangeDetection ==
    [][(pc = "run" /\ Head(todo) = "process" /\ todo' # todo /\ ~DecodeFails(cur))
        => LET ev == cur'.changes
           IN  /\ \A i \in Channels :
                     (\E k \in 1..Len(ev) : ev[k].index = i - 1)
                        <=> Abs(cur.vel[i] - lastVelocities[i]) >= minVelocityChange
               /\ \A k \in 1..Len(ev) :
                     /\ ev[k].index \in 0..(NumChannels - 1)
                     /\ ev[k].old_value = lastVelocities[ev[k].index + 1]
                     /\ ev[k].new_value = cur.vel[ev[k].index + 1]
                     /\ ev[k].change_value = ev[k].new_value - ev[k].old_value
                     /\ ev[k].timestamp = cur.ts
               /\ \A k, l \in 1..Len(ev) : ev[k].index = ev[l].index => k = l
               /\ cur'.vel = cur.vel
               /\ lastVelocities' = cur.vel]_vars

\* previous velocities all zero, now 0.005 and 0.020 on channels 0 and 1:
\* exactly one event, for channel 1, with change_value 0.020
C8_Witness ==
    /\ lastMetrics # NoFrame
    /\ lastMetrics.vel = Vec(1 :> 5 @@ 2 :> 20)
    /\ Len(lastMetrics.changes) = 1
    /\ lastMetrics.changes[1].index = 1
    /\ lastMetrics.changes[1].old_value = 0
    /\ lastMetrics.changes[1].change_value = 20

\* C9: in every tick the frame, and the change batch when there are changes,
\* are handed to the hub before the persistence of the frame is dispatched and
\* never after it, and whatever the state of the adapter and of the writes
\* still pending, the loop at a hand-off to the hub can make it.
C9_FanOutBeforePersist ==
    /\ \A i \in 1..Len(tickLog) :
          tickLog[i] = "persist" =>
             /\ \E j \in 1..(i - 1) : tickLog[j] = "BroadcastMetrics"
             /\ lastMetrics.changes # <<>> =>
                   \E j \in 1..(i - 1) : tickLog[j] = "BroadcastVelocityChanges"
             /\ \A j \in (i + 1)..Len(tickLog) :
                   tickLog[j] \notin {"BroadcastMetrics", "BroadcastVelocityChanges"}
    /\ (pc = "run" /\ Head(todo) = "BroadcastMetrics") => ENABLED BroadcastMetrics
    /\ (pc = "run" /\ Head(todo) = "BroadcastVelocityChanges")
          => ENABLED BroadcastVelocityChanges

\* a tick with changes has dispatched its writes after both hand-offs while
\* the writes of the tick before are still pending
C9_Witness ==
    /\ Len(writers) >= 2
    /\ tickLog = <<"BroadcastMetrics", "BroadcastVelocityChanges", "persist">>

\* C10: a call of BroadcastMetrics suppresses its frame iff fewer than 50 ms
\* have passed since the last metrics message really put on h.broadcast and no
\* channel's velocity differs by more than 0.05 m/s from that message.
C10_SuppressIffRecentAndClose ==
    [][(pc = "run" /\ Head(todo) = "BroadcastMetrics" /\ todo' # todo)
        => ((pc' # "send")
              <=> (/\ sentVel # Nil
                   /\ sinceSent' < coalesceWindow
                   /\ ~SignificantChange(cur.vel, sentVel)))]_vars

----------------------------------------------------------------------------
\* Properties of the Redis adapter and its store (checked under SpecStore)

\* C11: each frame persisted adds one entry to each history ring until the
\* ring holds its cap, so that after k frames a ring holds min(k, cap)
\* entries, also when successive frames carry the same value on the channel.
C11_RingGrowsPerFrame ==
    [][store'.scalars # store.scalars
        => \A k \in RingKeys :
              Cardinality(store'.hist[k])
                 = Min(Cardinality(store.hist[k]) + 1, historySize)]_vars

\* the change indexes before and after a step
ChangeIndexSteps ==
    {<<store.allChanges, store'.allChanges>>}
    \cup {<<store.changes[i], store'.changes[i]>> : i \in 0..(NumChannels - 1)}

C13_StoreHasLatestFrame ==
    (pc = "idle" /\ writers = <<>> /\ redisConnected /\ lastMetrics # NoFrame)
       => /\ store.scalars.ts = lastMetrics.ts
          /\ store.scalars.pos = lastMetrics.pos
          /\ store.scalars.vel = lastMetrics.vel

\* C14: the persistence batches dispatched and not yet written are bounded:
\* a dispatch made when PendingLimit batches are pending drops the oldest of
\* them instead of adding to them.
C14_DropOldestAtBound ==
    [][(/\ pc = "run"
        /\ Head(todo) = "persist"
        /\ todo' # todo
        /\ redisConnected
        /\ Len(writers) = PendingLimit)
        => /\ Len(writers') = PendingLimit
           /\ \A i \in 1..(PendingLimit - 1) : writers'[i] = writers[i + 1]]_vars

\* a step of a write goroutine, and a step of updateStatus
IsWriterStep == writers' # writers /\ Len(writers') <= Len(writers) /\ pc' = pc

IsStatusStep ==
    pc = "run" /\ Head(todo) \in {"updateStatus_ok", "updateStatus_falha"}
    /\ todo' # todo

C16_StoreRecovery ==
    ([]<>(pc = "idle"))
       => ((~redisConnected /\ redisUp) ~> (redisConnected \/ ~redisUp))

\* the tasks of the hub side: the caller of Broadcast*, Hub.Run and the two
\* pumps of every admitted client
AllTasksTerminated ==
    /\ pc = "exited"
    /\ hubPc = "exited"
    /\ \A c \in Clients : rpump[c] \in {"none", "done"} /\ wpump[c] \in {"none", "done"}

\* C17: after Shutdown every task terminates and none stays blocked for ever:
\* a state in which Shutdown has returned, the acquisition loop has returned
\* and no task can take a step any more is a state in which Hub.Run and the
\* pumps of every client have returned too.
C17_ShutdownTerminates ==
    (sdPc = "done" /\ pc = "exited" /\ ~Crashed /\ ~ENABLED NextHubDown)
       => AllTasksTerminated

\* C18: when Hub.Shutdown has returned, the queue of every client that was
\* admitted is closed.
C18_QueuesClosedAtReturn ==
    (sdPc \in {"redis", "done"} /\ ~Crashed)
       => \A c \in Clients : rpump[c] # "none" => closed[c]

Stopped == sdPc \in {"hub", "hubSleep", "redis", "done"}

\* C19: Stop, once called, returns, whatever the loop is doing; from its
\* return on the session to the radar is closed.
C19_StopClosesAndReturns ==
    /\ [](Stopped => ~connected)
    /\ (sdPc = "stop") ~> Stopped

\* C20: the store adapter is closed after the writes that were dispatched
\* have been drained: when it is closed no write is pending.
C20_DrainedBeforeStoreClosed == redisClosed => writers = <<>>

\* C21: the queue client.send of a client never holds more messages than its
\* capacity, whoever enqueues: the fan-out of a broadcast, the welcome, the
\* pong and the error sent by the readPump, the reply of a command.
C21_QueueBounded == \A c \in Clients : Len(send[c]) <= qcap

\* the queue of a client is full and its last message is a pong or an error of
\* its readPump, which is waiting to enqueue another reply, and a broadcast has
\* found the queue full
C21_Witness ==
    \E c \in Clients :
        /\ Len(send[c]) = qcap
        /\ send[c][qcap].type \in {"pong", "error"}
        /\ rpump[c] = "reply"
        /\ c \in deadClients

\* C24: the welcome of an admitted client is enqueued on its own queue and
\* carries its own identifier, at most once, and its enqueueing never fails.
C24_WelcomeOnceOwnId ==
    \A c \in Clients :
        /\ initPc[c] # "panic"
        /\ \A i \in 1..Len(send[c]) :
              send[c][i].type = "welcome"
                 => send[c][i].tag = ClientId(c) /\ initPc[c] = "done"
        /\ Cardinality({i \in 1..Len(send[c]) : send[c][i].type = "welcome"}) <= 1

\* C25: when sendInitialDataToClient has finished for a client, the current
\* status has been enqueued for it, and the latest frame if there is one.
C25_InitialSnapshot ==
    [][\A c \in Clients :
          (initPc[c] = "send" /\ initPc'[c] = "done")
             => /\ \E i \in 1..Len(send'[c]) : send'[c][i].type = "status"
                /\ hubLastMetrics # Nil
                      => \E i \in 1..Len(send'[c]) : send'[c][i].type = "metrics"]_vars

\* the time a ping carries, at its top level or under params
PingTime(m) == IF "time" \in m.keys THEN m.time ELSE m.ptime

\* C26: the reply the readPump prepares for a ping of a client is a pong that
\* echoes the time of the ping.
C26_PingGetsPong ==
    \A c \in Clients :
        (rpump[c] = "reply" /\ rout[c].in.json /\ rout[c].in.type = "ping")
           => rout[c].reply = Msg("pong", PingTime(rout[c].in))

KnownCommands == {"get_status", "get_history", "ping"}

\* the commands whose handling ends in this step
Handled == handlers \ handlers'

\* the clients whose queue grows in this step by exactly a message of type t
RepliedTo(t) ==
    {c \in Clients : /\ Len(send'[c]) = Len(send[c]) + 1
                     /\ send'[c][Len(send'[c])].type = t}

\* C27: the handling of a command of unknown type ends with an error of code
\* invalid_format enqueued to the client that sent it, if it is still
\* registered, and to no other.
C27_UnknownTypeGetsError ==
    [][\A cmd \in Handled :
          (cmd.command \notin KnownCommands
              /\ ClientsById(clients, cmd.client) # {})
             => /\ RepliedTo("error") = ClientsById(clients, cmd.client)
                /\ \A c \in RepliedTo("error") :
                      send'[c][Len(send'[c])] = ErrorMsg("invalid_format")]_vars

\* C28: the handling of get_status ends with a status message, and the
\* handling of get_history with a velocity_history message, enqueued to the
\* client that sent the command, if it is still registered, and to no other.
C28_CommandAnswersRequester ==
    [][\A cmd \in Handled :
          ClientsById(clients, cmd.client) # {}
             => /\ cmd.command = "get_status"
                      => RepliedTo("status") = ClientsById(clients, cmd.client)
                /\ cmd.command = "get_history"
                      => RepliedTo("velocity_history")
                            = ClientsById(clients, cmd.client)]_vars

FrameNos(q) == [i \in 1..Len(SelectSeq(q, IsFrame)) |-> FrameNo(SelectSeq(q, IsFrame)[i])]

Increasing(sq) == \A i, j \in 1..Len(sq) : i < j => sq[i] < sq[j]

\* the messages handed to the hub and not yet fanned out
PendingBroadcast == broadcast \o (IF pc = "send" THEN <<out>> ELSE <<>>)

\* C22: for every client, the frames written to its connection, then the
\* frames in its queue, then the frames the hub has not fanned out yet are in
\* acquisition order; a queue changes only by losing its first message, by
\* being emptied into one write, or by gaining a message at its end.
C22_PerSubscriberOrder ==
    /\ [](\A c \in Clients :
             Increasing(FrameNos(emitLog[c] \o send[c] \o PendingBroadcast)))
    /\ [][\A c \in Clients :
             \/ send'[c] = send[c]
             \/ send[c] # <<>> /\ send'[c] = Tail(send[c])
             \/ send'[c] = <<>>
             \/ /\ Len(send'[c]) = Len(send[c]) + 1
                /\ SubSeq(send'[c], 1, Len(send[c])) = send[c]]_vars

\* all the frames have been written to the connection of a client
C22_Witness == \E c \in Clients : Len(emitLog[c]) = Len(FrameTags)

\* C23: a client Run has found full is removed from the registry and its queue
\* is closed, also when its readPump unregisters it as well; a closed queue
\* stays closed, and the unregistration of a client that is not in the registry
\* changes neither the registry nor a queue.
C23_EvictOnce ==
    /\ \A c \in Clients :
          (c \in deadClients) ~> ((c \notin clients /\ closed[c]) \/ Crashed)
    /\ [][\A c \in Clients :
             /\ closed[c] => closed'[c]
             /\ (c \notin clients /\ rpump[c] = "unregister" /\ rpump'[c] = "done")
                   => UNCHANGED <<clients, closed, send>>]_vars

\* the segments that are a numeral of n: plain, with a plus sign, with a zero
\* in front
Numerals(n) ==
    LET d == <<"1", "2", "3", "4", "5", "6", "7">>[n]
    IN  {<<d>>, <<"+", d>>, <<"0", d>>}

SegmentIndex(seg) == CHOOSE n \in 1..7 : seg \in Numerals(n)

ValidSegment(seg) == \E n \in 1..7 : seg \in Numerals(n)

C30_FallbackToMemory ==
    (~redisConnected \/ ~redisUp) =>
       /\ resp.req = "status" =>
             resp.code = 200 /\ resp.body = <<StatusView(status.tag)>>
       /\ (resp.req = "current" /\ lastMetrics # NoFrame) =>
             resp.code = 200 /\ resp.body = <<MetricsView(lastMetrics)>>

\* C31: once the service is started, the health endpoint answers degraded
\* when the status record of the service is the communication failure or the
\* store is disconnected, and ok otherwise.
C31_HealthDegraded ==
    (resp.req = "health" /\ ServiceRunning) =>
       resp.body = <<StatusView(IF status.tag = "falha_comunicacao" \/ ~redisConnected
                                  THEN "degraded" ELSE "ok")>>

\* C32: DecodeValues returns a frame and no error for every reply, and every
\* channel whose value token was not there (beyond the count of the block, past
\* the end of the tokens, or in a block that is missing or cut) is zero.
C32_DecoderTotal ==
    dec.done =>
       /\ ~dec.err
       /\ \A i \in Channels :
             /\ i \notin ValueSlots(rx.tokens, FindToken(rx.tokens, PosTag))
                   => dec.pos[i] = 0
             /\ i \notin ValueSlots(rx.tokens, FindToken(rx.tokens, VelTag))
                   => dec.vel[i] = 0

\* the tokens of four hexadecimal digits of the replies, with their values
Hex4 ==
    {[tok |-> <<"0", "0", "1", "4">>, val |-> 20],
     [tok |-> <<"7", "F", "F", "F">>, val |-> 32767],
     [tok |-> <<"8", "0", "0", "0">>, val |-> 32768],
     [tok |-> <<"F", "F", "F", "6">>, val |-> 65526],
     [tok |-> <<"F", "F", "F", "F">>, val |-> 65535]}

\* the value token of channel i in the block of tag is h.tok
SlotHolds(tag, i, h) ==
    /\ i \in ValueSlots(rx.tokens, FindToken(rx.tokens, tag))
    /\ rx.tokens[FindToken(rx.tokens, tag) + 3 + i] = h.tok

\* C33: the raw velocity read from a token of four hexadecimal digits is its
\* value when that is at most 32767 and its value minus 65536 otherwise, so it
\* lies in -32768..32767; the raw position is the value of the token.
C33_SignedVelocity ==
    dec.done =>
       \A i \in Channels : \A h \in Hex4 :
          /\ SlotHolds(VelTag, i, h) =>
                /\ dec.velRaw[i] = IF h.val <= 32767 THEN h.val ELSE h.val - 65536
                /\ dec.velRaw[i] >= 0 - 32768 /\ dec.velRaw[i] <= 32767
          /\ SlotHolds(PosTag, i, h) => dec.posRaw[i] = h.val

\* FFF6 read as -10 and 0014 as 20 in the velocity block, FFF6 as 65526 in the
\* position block
C33_Witness ==
    /\ dec.done
    /\ dec.velRaw[1] = 0 - 10 /\ dec.velRaw[2] = 20
    /\ dec.posRaw[1] = 65526

\* C34: the ping of the cleanup ticker never stalls the hub: Run is never left
\* inside sendPingToAllClients waiting for room in h.broadcast.
C34_PingNeverStalls == hubPc # "ping"

\* C35: no goroutine sends on the queue of a client after it was closed:
\* neither sendInitialDataToClient, nor the readPump with a pong or an error,
\* nor a handleClientCommand with its pong ends in the panic of such a send.
C35_NoSendOnClosed ==
    /\ \A c \in Clients : initPc[c] # "panic" /\ rpump[c] # "panic"
    /\ \A h \in handlers : h.command # "panic"

\* C36: once a tick has acquired a frame, the status record is no longer at
\* its initial value initializing.
C36_StatusLeavesInitializing ==
    (pc = "idle" /\ lastMetrics # NoFrame) => status.tag # "initializing"

\* C37: every detail scalar of a change kept in the store is a member of the
\* global change index, so there are at most maxVelocityHistorySize of them.
C37_DetailsFollowIndex ==
    /\ store.details \subseteq {e.member : e \in store.allChanges}
    /\ Cardinality(store.details) <= maxVelocityHistorySize

\* the steps that end a poll in failure: the return of handleConnectionError's
\* first half after a transport error, and a reply that does not decode
TransportFailure == pc = "failed" /\ pc' # "failed"

DecodeFailure ==
    pc = "run" /\ Head(todo) = "process" /\ todo' # todo /\ cur.kind = "empty"

FrameCalls == {"process", "BroadcastMetrics", "BroadcastVelocityChanges", "persist"}

FrameMessages == {"metrics", "velocity_changes"}

\* C38: a tick that fails, by a transport error or by a reply that does not
\* decode, leaves the last velocities and the cached frame as they were, has
\* handed no metrics or change message to the hub and has no call left that
\* would; what is left of a tick only shrinks and a metrics or change message
\* is handed over only by the pending call of that name. A tick that decodes
\* a frame makes each of the frame's seven velocities the reference of the
\* next comparison, whether the channel produced an event or not.
C38_FailedTickKeepsReference ==
    [][/\ (TransportFailure \/ DecodeFailure)
            => /\ lastVelocities' = lastVelocities
               /\ lastMetrics' = lastMetrics
               /\ \A k \in 1..Len(todo') : todo'[k] \notin FrameCalls
               /\ \A k \in 1..Len(tickLog') :
                     tickLog'[k] \notin {"BroadcastMetrics", "BroadcastVelocityChanges"}
               /\ out'.type \in FrameMessages => out' = out
       /\ (pc = "run" /\ Head(todo) # "process" /\ todo' # todo) => todo' = Tail(todo)
       /\ (out' # out /\ out'.type \in FrameMessages)
            => pc = "run" /\ Head(todo) \in {"BroadcastMetrics", "BroadcastVelocityChanges"}
       /\ (pc = "run" /\ Head(todo) = "process" /\ todo' # todo /\ cur.kind = "data")
            => /\ \A i \in Channels : lastVelocities'[i] = cur.vel[i]
               /\ lastMetrics'.vel = cur.vel
               /\ \E k \in 1..Len(todo') : todo'[k] = "BroadcastMetrics"]_vars

\* a reply that did not decode has ended a tick, after a frame with 0.005 on
\* channel 0 and no event for it: the reference and the cache are that frame's
C38_Witness ==
    /\ pc = "idle"
    /\ cur = NoFrame
    /\ tickLog = <<>>
    /\ lastMetrics # NoFrame
    /\ lastVelocities = lastMetrics.vel
    /\ lastVelocities[1] = 5
    /\ \A k \in 1..Len(lastMetrics.changes) : lastMetrics.changes[k].index # 0

\* C39: with the store disabled by configuration the shutdown of the server
\* goes through the close of the store adapter without a panic.
C39_DisabledStoreShutdown == ~redisEnabled => sdPc # "panic"
====
